---- MODULE Spec2Model ----
(***************************************************************************)
(* A model of the ActivityPredictor app: the sensor buffers and the        *)
(* "Generate Feature Sets" run of src/app/(tabs)/index.tsx, the signal     *)
(* conditioning of src/components/Signal_Processor.ts and the feature      *)
(* extractor of the featureExtraction component (src/unnamed/part_001).    *)
(*                                                                         *)
(* Numbers.  A JavaScript number is modelled as a fixed-point decimal with *)
(* Scale units per 1 (Fin(v) stands for v / Scale), or one of the three    *)
(* non-finite values NaN, Infinity, -Infinity.  Every arithmetic operator  *)
(* below follows the IEEE rules for the non-finite values and for division *)
(* by zero; finite results are rounded down to the next unit.  -0 is not   *)
(* distinguished from 0.                                                   *)
(***************************************************************************)
EXTENDS Integers, Sequences, FiniteSets, TLC

\* Units per 1 of the fixed-point representation of a finite number.
Scale == 10000

\* F applied to the value of e; e is evaluated once, as a JavaScript
\* `const v = e` does
Let(e, F(_)) == CHOOSE r \in {F(v) : v \in {e}} : TRUE

\* F applied to the values of e1 and e2, each evaluated once
Let2(e1, e2, F(_, _)) == CHOOSE r \in {F(v1, v2) : v1 \in {e1}, v2 \in {e2}} : TRUE

Fin(v) == [k |-> "fin", v |-> v]
NaN == [k |-> "nan", v |-> 0]
PInf == [k |-> "inf", v |-> 1]
NInf == [k |-> "inf", v |-> -1]

\* The number n (an integer literal of the code, a length, a count).
Num(n) == Fin(n * Scale)

IsFinite(a) == a.k = "fin"
IsNaN(a) == a.k = "nan"

\* sign of a non-NaN number: -1, 0, 1
Sgn(a) == IF a.v > 0 THEN 1 ELSE IF a.v < 0 THEN -1 ELSE 0

Abs(i) == IF i < 0 THEN -i ELSE i

\* floor(x * y / Scale), computed without an intermediate product beyond 32 bits
MulDiv(x, y) ==
  x * (y \div Scale) + (x \div Scale) * (y % Scale) + ((x % Scale) * (y % Scale)) \div Scale

\* [q, r] with q * b + r = r0 * s and 0 <= r < b, for 0 <= r0 < b (binary long
\* multiplication, so that no intermediate value leaves 32 bits)
RECURSIVE ScaledQuot(_, _, _)
ScaledQuot(r0, b, s) ==
  IF s = 0 THEN [q |-> 0, r |-> 0]
  ELSE Let(ScaledQuot(r0, b, s \div 2), LAMBDA h :
         Let(IF s % 2 = 1 THEN ((2 * h.r) % b) + r0 ELSE (2 * h.r) % b, LAMBDA r3 :
           [q |-> 2 * h.q + (2 * h.r) \div b + r3 \div b, r |-> r3 % b]))

\* floor(x * Scale / y) for y > 0 (the product is taken directly when it fits 32 bits)
DivMul(x, y) ==
  IF Abs(x) < 2^30 \div Scale THEN (x * Scale) \div y
  ELSE (x \div y) * Scale + ScaledQuot(x % y, y, Scale).q

\* a + b
Add(a, b) ==
  (
    IF IsNaN(a) \/ IsNaN(b) THEN NaN
    ELSE IF a.k = "inf" /\ b.k = "inf" THEN (IF a.v = b.v THEN a ELSE NaN)
    ELSE IF a.k = "inf" THEN a
    ELSE IF b.k = "inf" THEN b
    ELSE Fin(a.v + b.v))

\* -a
Neg(a) == (IF IsNaN(a) THEN NaN ELSE [k |-> a.k, v |-> -a.v])

\* a - b
Sub(a, b) == Add(a, Neg(b))

\* a * b
Mul(a, b) ==
  (
    IF IsNaN(a) \/ IsNaN(b) THEN NaN
    ELSE IF a.k = "inf" \/ b.k = "inf"
         THEN (IF Sgn(a) * Sgn(b) = 0 THEN NaN
               ELSE IF Sgn(a) * Sgn(b) > 0 THEN PInf ELSE NInf)
    ELSE Fin(MulDiv(a.v, b.v)))

\* a / b
Div(a, b) ==
  (
    IF IsNaN(a) \/ IsNaN(b) THEN NaN
    ELSE IF a.k = "inf"
         THEN (IF b.k = "inf" THEN NaN
               ELSE IF Sgn(a) * (IF Sgn(b) < 0 THEN -1 ELSE 1) > 0 THEN PInf ELSE NInf)
    ELSE IF b.k = "inf" THEN Fin(0)
    ELSE IF b.v = 0
         THEN (IF a.v = 0 THEN NaN ELSE IF a.v > 0 THEN PInf ELSE NInf)
    ELSE IF b.v > 0 THEN Fin(DivMul(a.v, b.v))
    ELSE Fin(DivMul(-a.v, -b.v)))

\* a < b  (false when either is NaN)
Lt(a, b) ==
  (
    /\ ~IsNaN(a) /\ ~IsNaN(b)
    /\ IF a.k = "inf" /\ b.k = "inf" THEN a.v < b.v
       ELSE IF a.k = "inf" THEN a.v < 0
       ELSE IF b.k = "inf" THEN b.v > 0
       ELSE a.v < b.v)

\* a === b  (false when either is NaN)
StrictEq(a, b) == (~IsNaN(a) /\ ~IsNaN(b) /\ a = b)

RECURSIVE MinFrom(_, _, _)
MinFrom(s, i, m) ==
  IF i > Len(s) THEN m
  ELSE IF IsNaN(s[i]) THEN NaN
  ELSE Let(IF Lt(s[i], m) THEN s[i] ELSE m, LAMBDA m2 : MinFrom(s, i + 1, m2))

\* Math.min(...s): Infinity for no argument, NaN when an argument is NaN
MathMin(s0) == Let(s0, LAMBDA s : MinFrom(s, 1, PInf))

RECURSIVE MaxFrom(_, _, _)
MaxFrom(s, i, m) ==
  IF i > Len(s) THEN m
  ELSE IF IsNaN(s[i]) THEN NaN
  ELSE Let(IF Lt(m, s[i]) THEN s[i] ELSE m, LAMBDA m2 : MaxFrom(s, i + 1, m2))

\* Math.max(...s): -Infinity for no argument, NaN when an argument is NaN
MathMax(s0) == Let(s0, LAMBDA s : MaxFrom(s, 1, NInf))

RECURSIVE SumFrom(_, _, _)
SumFrom(s, i, acc) == IF i > Len(s) THEN acc ELSE SumFrom(s, i + 1, Add(acc, s[i]))

\* s.reduce((a, b) => a + b, 0)
Sum(s0) == Let(s0, LAMBDA s : SumFrom(s, 1, Fin(0)))

Min2(i, j) == IF i < j THEN i ELSE j
Max2(i, j) == IF i > j THEN i ELSE j

\* s.slice(start, end) on 0-based indices, clamped to the sequence
Slice(s, start, end) == SubSeq(s, start + 1, Min2(end, Len(s)))

\* The sequence s as an explicit tuple of its elements
Elements(s) == s \o <<>>

\* Whether r * r <= x * Scale, for r >= 0 and x >= 0 (r * r is split into its
\* quotient and remainder by Scale, so that no intermediate value leaves 32 bits)
SquareAtMost(r, x) ==
  MulDiv(r, r) < x \/ (MulDiv(r, r) = x /\ ((r % Scale) * (r % Scale)) % Scale = 0)

\* The least power of two p >= bit with p * p > x * Scale
RECURSIVE SqrtTop(_, _)
SqrtTop(bit, x) == IF SquareAtMost(bit, x) THEN SqrtTop(2 * bit, x) ELSE bit

\* The largest r = acc + (some of the bits below bit) with r * r <= x * Scale
RECURSIVE SqrtBits(_, _, _)
SqrtBits(acc, bit, x) ==
  IF bit = 0 THEN acc
  ELSE Let(IF SquareAtMost(acc + bit, x) THEN acc + bit ELSE acc, LAMBDA acc2 :
         SqrtBits(acc2, bit \div 2, x))

\* Math.sqrt(a): NaN for NaN and for a negative number
MathSqrt(a) ==
  (
    IF IsNaN(a) THEN NaN
    ELSE IF a.k = "inf" THEN (IF a.v > 0 THEN PInf ELSE NaN)
    ELSE IF a.v < 0 THEN NaN
    ELSE Fin(SqrtBits(0, SqrtTop(1, a.v), a.v)))

\* The polynomial a0 + a1 x + a2 x^2 + a3 x^3 of the approximation
\* acos(x) = sqrt(1 - x) * (a0 + a1 x + a2 x^2 + a3 x^3) on [0, 1], in 1/10000 units
AcosTable == [a0 |-> 15707, a1 |-> -2121, a2 |-> 743, a3 |-> -187, pi |-> 31416]

AcosCoeff ==
  [name \in {"a0", "a1", "a2", "a3", "pi"} |-> Fin((AcosTable[name] * Scale) \div 10000)] @@ <<>>

\* acos on [0, 1]
AcosUnit(x) ==
  Let(AcosCoeff, LAMBDA c :
    Mul(MathSqrt(Sub(Num(1), x)),
        Add(c.a0, Mul(x, Add(c.a1, Mul(x, Add(c.a2, Mul(x, c.a3))))))))

\* Math.acos(a): NaN for NaN and outside [-1, 1]
MathAcos(a) ==
  (
    IF IsNaN(a) \/ a.k = "inf" THEN NaN
    ELSE IF Lt(Num(1), a) \/ Lt(a, Num(-1)) THEN NaN
    ELSE IF a.v >= 0 THEN AcosUnit(a)
    ELSE Sub(AcosCoeff.pi, AcosUnit(Neg(a))))

(***************************************************************************)
(* SignalProcessor (src/components/Signal_Processor.ts)                    *)
(***************************************************************************)
samplingRate == 50

RECURSIVE InsertSorted(_, _)
InsertSorted(sorted, v) ==
  IF sorted = <<>> THEN <<v>>
  ELSE IF Lt(Fin(0), Sub(sorted[Len(sorted)], v))
       THEN Append(InsertSorted(SubSeq(sorted, 1, Len(sorted) - 1), v), sorted[Len(sorted)])
       ELSE Append(sorted, v)

RECURSIVE SortFrom(_, _, _)
SortFrom(s, i, sorted) ==
  IF i > Len(s) THEN sorted
  ELSE Let(InsertSorted(sorted, s[i]), LAMBDA sorted2 : SortFrom(s, i + 1, sorted2))

\* [...s].sort((a, b) => a - b)
SortNum(s0) == Let(s0, LAMBDA s : SortFrom(s, 1, <<>>))

\* medianFilter(data, windowSize = 3)
medianFilter(data0, medianWindow) ==
  Let(data0, LAMBDA data :
    Elements([i \in 1..Len(data) |->
       Let(SortNum(SubSeq(data, Max2(1, i - medianWindow \div 2),
                                Min2(Len(data), i + medianWindow \div 2))),
           LAMBDA window : window[(Len(window) \div 2) + 1])]))

\* The coefficients b0, b1, b2, a1, a2 that butterworthFilter derives from the
\* cutoff (wc = tan(pi * cutoffFreq / samplingRate), ...), in 1/10000 units,
\* for the two cutoffs the program uses: 20 Hz and 0.3 Hz.
ButterworthTable(cutoffFreq) ==
  IF cutoffFreq = Num(20)
  THEN [b0 |-> 6389, b1 |-> 12779, b2 |-> 6389, a1 |-> 11430, a2 |-> 4128]
  ELSE [b0 |-> 3, b1 |-> 7, b2 |-> 3, a1 |-> -19467, a2 |-> 9481]

ButterworthCoeff(cutoffFreq) ==
  Let(ButterworthTable(cutoffFreq), LAMBDA t :
    [name \in {"b0", "b1", "b2", "a1", "a2"} |-> Fin((t[name] * Scale) \div 10000)] @@ <<>>)

RECURSIVE ButterworthFrom(_, _, _, _, _, _, _, _)
ButterworthFrom(data, c, i, x1, x2, y1, y2, filtered) ==
  IF i > Len(data) THEN filtered
  ELSE Let(Sub(Sub(Add(Add(Mul(c.b0, data[i]), Mul(c.b1, x1)), Mul(c.b2, x2)),
                   Mul(c.a1, y1)), Mul(c.a2, y2)),
           LAMBDA y0 :
             Let(Append(filtered, y0), LAMBDA filtered2 :
               ButterworthFrom(data, c, i + 1, data[i], x1, y0, y1, filtered2)))

\* butterworthFilter(data, cutoffFreq): x1, x2, y1, y2 start at 0 in every call
butterworthFilter(data0, cutoffFreq) ==
  Let2(data0, ButterworthCoeff(cutoffFreq), LAMBDA data, c :
    ButterworthFrom(data, c, 1, Fin(0), Fin(0), Fin(0), Fin(0), <<>>))

\* The 0.3 Hz cutoff of the gravity low-pass
gravityCutoff == Div(Num(3), Num(10))

\* A variant of calculateJerk that divides by the time step in milliseconds
calculateJerkPerMs(data0, timestamps0) ==
  Let2(data0, timestamps0, LAMBDA data, timestamps :
    Elements([i \in 1..(Len(data) - 1) |->
       Div(Sub(data[i + 1], data[i]), Num(timestamps[i + 1] - timestamps[i]))]))

\* calculateJerk(data, timestamps); timestamps are integers (ms)
calculateJerk(data0, timestamps0) ==
  Let2(data0, timestamps0, LAMBDA data, timestamps :
    Elements([i \in 1..(Len(data) - 1) |->
       Div(Sub(data[i + 1], data[i]),
           Div(Num(timestamps[i + 1] - timestamps[i]), Num(1000)))]))

\* s[i] of a 0-based index i: undefined past the end, which arithmetic turns
\* into NaN
At(s, i) == IF i + 1 \in DOMAIN s THEN s[i + 1] ELSE NaN

\* calculateMagnitude(x, y, z)
calculateMagnitude(x0, y0, z0) ==
  Let(<<x0, y0, z0>>, LAMBDA v :
    Elements([i \in 1..Len(v[1]) |->
       MathSqrt(Add(Add(Mul(v[1][i], v[1][i]),
                        Mul(At(v[2], i - 1), At(v[2], i - 1))),
                    Mul(At(v[3], i - 1), At(v[3], i - 1))))]))

\* A variant of processAxis whose gravity component is the low-pass of the
\* median-filtered signal
processAxisGravityOfMedian(data, timestamps, cutoffFreq) ==
  Let(butterworthFilter(medianFilter(data, 3), cutoffFreq), LAMBDA noiseFiltered :
    Let(butterworthFilter(medianFilter(data, 3), gravityCutoff), LAMBDA gravityComponent :
      Let(Elements([i \in 1..Len(noiseFiltered) |->
                      Sub(noiseFiltered[i], gravityComponent[i])]),
          LAMBDA bodyComponent :
            [bodyComponent |-> bodyComponent,
             gravityComponent |-> gravityComponent,
             jerk |-> calculateJerk(bodyComponent, timestamps)])))

\* processAxis(data, timestamps, cutoffFreq) without the spectrum
processAxis(data, timestamps, cutoffFreq) ==
  Let(butterworthFilter(medianFilter(data, 3), cutoffFreq), LAMBDA noiseFiltered :
    Let(butterworthFilter(noiseFiltered, gravityCutoff), LAMBDA gravityComponent :
      Let(Elements([i \in 1..Len(noiseFiltered) |->
                      Sub(noiseFiltered[i], gravityComponent[i])]),
          LAMBDA bodyComponent :
            [bodyComponent |-> bodyComponent,
             gravityComponent |-> gravityComponent,
             jerk |-> calculateJerk(bodyComponent, timestamps)])))

(***************************************************************************)
(* FeatureExtractor (src/unnamed/part_001)                                 *)
(***************************************************************************)
RECURSIVE BurgSums(_, _, _, _, _, _)
BurgSums(f, b, n, N, num, den) ==
  IF n > N THEN [num |-> num, den |-> den]
  ELSE Let2(Add(num, Mul(f[n], b[n - 1])),
            Add(den, Add(Mul(f[n], f[n]), Mul(b[n - 1], b[n - 1]))),
            LAMBDA num2, den2 : BurgSums(f, b, n + 1, N, num2, den2))

RECURSIVE BurgFrom(_, _, _, _, _)
BurgFrom(f, b, m, order, ar) ==
  IF m >= order THEN ar
  ELSE Let(BurgSums(f, b, m + 2, Len(f), Fin(0), Fin(0)), LAMBDA s :
         Let(Div(Mul(Num(-2), s.num), s.den), LAMBDA k :
           Let2(Elements([n \in 1..Len(f) |->
                   IF n >= m + 2 THEN Add(f[n], Mul(k, b[n - 1])) ELSE f[n]]),
                Elements([n \in 1..Len(f) |->
                   IF n + 1 >= m + 2 /\ n + 1 <= Len(f)
                   THEN Add(b[n], Mul(k, f[n + 1])) ELSE b[n]]),
                LAMBDA f2, b2 :
                  Let(Append(ar, k), LAMBDA ar2 : BurgFrom(f2, b2, m + 1, order, ar2)))))

\* calculateARCoefficients(data, order = 4)
calculateARCoefficients(data0, order) ==
  Let(data0, LAMBDA data : BurgFrom(data, data, 0, order, <<>>))

\* calculateCorrelation(signal1, signal2)
calculateCorrelation(signal10, signal20) ==
  Let2(signal10, signal20, LAMBDA signal1, signal2 :
    Let2(Div(Sum(signal1), Num(Len(signal1))), Div(Sum(signal2), Num(Len(signal2))),
         LAMBDA mean1, mean2 :
           Let2(Elements([i \in 1..Len(signal1) |-> Sub(signal1[i], mean1)]),
                Elements([i \in 1..Len(signal2) |-> Sub(signal2[i], mean2)]),
                LAMBDA d1, d2 :
                  Div(Sum(Elements([i \in 1..Len(d1) |-> Mul(d1[i], At(d2, i - 1))])),
                      MathSqrt(Mul(Sum(Elements([i \in 1..Len(d1) |-> Mul(d1[i], d1[i])])),
                                   Sum(Elements([i \in 1..Len(d2) |-> Mul(d2[i], d2[i])]))))))))

\* Math.floor(a)
MathFloor(a) == IF IsFinite(a) THEN Fin((a.v \div Scale) * Scale) ELSE a

\* x in [Scale, 2 Scale) and e with x * 2^e = v, for v > 0
RECURSIVE Log2Normal(_, _)
Log2Normal(x, e) ==
  IF x >= 2 * Scale THEN Log2Normal(x \div 2, e + 1)
  ELSE IF x < Scale THEN Log2Normal(2 * x, e - 1)
  ELSE [x |-> x, e |-> e]

\* The binary digits of log2(x / Scale) for x in [Scale, 2 Scale), by repeated
\* squaring: digit k is worth bit = Scale / 2^k
RECURSIVE Log2Digits(_, _, _)
Log2Digits(x, bit, acc) ==
  IF bit = 0 THEN acc
  ELSE Let((x * x) \div Scale, LAMBDA square :
         IF square >= 2 * Scale
         THEN Log2Digits(square \div 2, bit \div 2, acc + bit)
         ELSE Log2Digits(square, bit \div 2, acc))

\* Math.log2(a): NaN for NaN and for a negative number, -Infinity for 0
MathLog2(a) ==
  (
    IF IsNaN(a) THEN NaN
    ELSE IF a.k = "inf" THEN (IF a.v > 0 THEN PInf ELSE NaN)
    ELSE IF a.v < 0 THEN NaN
    ELSE IF a.v = 0 THEN NInf
    ELSE Let(Log2Normal(a.v, 0), LAMBDA n :
           Fin(n.e * Scale + Log2Digits(n.x, Scale \div 2, 0))))

\* bins[binIdx]++ : an element 0..9 is incremented; any other key becomes a
\* property of the array holding undefined + 1 = NaN
RECURSIVE BinsFrom(_, _, _, _, _)
BinsFrom(data, i, minVal, range, bins) ==
  IF i > Len(data) THEN bins
  ELSE Let(MathMin(<<MathFloor(Mul(Div(Sub(data[i], minVal), range), Num(10))), Num(9)>>),
           LAMBDA binIdx :
             Let(IF binIdx \in DOMAIN bins
                 THEN [bins EXCEPT ![binIdx] = Add(@, Num(1))]
                 ELSE (binIdx :> NaN) @@ bins,
                 LAMBDA bins2 : BinsFrom(data, i + 1, minVal, range, bins2)))

\* -bins.map(...).reduce(...): map and reduce visit the elements 0..9 only
RECURSIVE EntropyFrom(_, _, _, _)
EntropyFrom(bins, b, n, acc) ==
  IF b > 9 THEN Neg(acc)
  ELSE Let(Div(bins[Num(b)], Num(n)), LAMBDA p :
         Let(Add(acc, IF StrictEq(p, Num(0)) THEN Num(0) ELSE Mul(p, MathLog2(p))),
             LAMBDA acc2 : EntropyFrom(bins, b + 1, n, acc2)))

\* The entropy block of calculateTimeFeatures (and of
\* calculateFrequencyFeatures, which repeats it): the histogram and
\* features["entropy()"]
entropyOf(data0) ==
  Let(data0, LAMBDA data :
    Let2(MathMin(data), Sub(MathMax(data), MathMin(data)), LAMBDA minVal, range :
      Let(BinsFrom(data, 1, minVal, range, [b \in {Num(i) : i \in 0..9} |-> Num(0)] @@ <<>>),
          LAMBDA bins :
            [bins |-> bins, entropy |-> EntropyFrom(bins, 0, Len(data), Fin(0))])))

\* calculateTimeFeatures(data): the statistics the model follows, mean(), max(),
\* min() and arCoeff()1.  arCoeffs[0] is fixed by the first pass (m = 0) of the
\* Burg loop, so that pass is the one evaluated here.
calculateTimeFeatures(data0) ==
  Let(data0, LAMBDA data :
    ("mean()" :> Div(Sum(data), Num(Len(data)))) @@
    ("max()" :> MathMax(data)) @@
    ("min()" :> MathMin(data)) @@
    ("arCoeff()1" :> calculateARCoefficients(data, 1)[1]))

\* The elements of a sequence
Range(s) == {s[i] : i \in DOMAIN s}

\* ["x", "y", "z"].forEach
Axes == <<"x", "y", "z">>

\* The signal types of the first forEach of extractFeatures
TimeSignalTypes == <<"tBodyAcc", "tGravityAcc", "tBodyAccJerk", "tBodyGyro", "tBodyGyroJerk">>

\* The features whose values the model follows: for each axis, mean(), max(),
\* min() and arCoeff()1 of the four body signals, and mean(), max(), min() of
\* the gravity signal (its Burg sums are below the model's precision).
ModelledStats(signalType) ==
  IF signalType = "tGravityAcc" THEN {"mean()", "max()", "min()"}
  ELSE {"mean()", "max()", "min()", "arCoeff()1"}

\* `${signalType}-${feature}-${axis}`
AxisKey(signalType, feature, axis) == signalType \o "-" \o feature \o "-" \o axis

ModelledKeys ==
  {AxisKey(signalType, feature, axis) :
     signalType \in Range(TimeSignalTypes), feature \in {"mean()", "max()", "min()", "arCoeff()1"},
     axis \in Range(Axes)} \
  {AxisKey("tGravityAcc", "arCoeff()1", axis) : axis \in Range(Axes)}

\* Object.entries(timeFeatures).forEach(([feature, value]) =>
\*   features[`${signalType}-${feature}-${axis}`] = value), for the followed features
AxisEntries(signalType, axis, timeFeatures0) ==
  Let(timeFeatures0, LAMBDA timeFeatures :
    {<<AxisKey(signalType, feature, axis), timeFeatures[feature]>> :
       feature \in ModelledStats(signalType)})

\* extractFeatures(processedSignals), restricted to ModelledKeys
extractFeatures(processedSignals0) ==
  Let(processedSignals0, LAMBDA processedSignals :
    Let(UNION {AxisEntries(signalType, axis,
                           calculateTimeFeatures(processedSignals[signalType][axis])) :
                 signalType \in Range(TimeSignalTypes), axis \in Range(Axes)},
        LAMBDA written :
          [key \in {e[1] : e \in written} |-> (CHOOSE e \in written : e[1] = key)[2]] @@ <<>>))

\* calculateAngle(vector1, vector2)
calculateAngle(vector10, vector20) ==
  Let2(vector10, vector20, LAMBDA vector1, vector2 :
    Let(Sum(Elements([i \in 1..Len(vector1) |-> Mul(vector1[i], At(vector2, i - 1))])),
        LAMBDA dotProduct :
          Let2(MathSqrt(Sum(Elements([i \in 1..Len(vector1) |-> Mul(vector1[i], vector1[i])]))),
               MathSqrt(Sum(Elements([i \in 1..Len(vector2) |-> Mul(vector2[i], vector2[i])]))),
               LAMBDA magnitude1, magnitude2 :
                 MathAcos(Div(dotProduct, Mul(magnitude1, magnitude2))))))

\* data.reduce((a, b) => a + b, 0) / length
MeanOver(data, length) == Div(Sum(data), Num(length))

\* The vectors extractAngleFeatures takes from processedSignals: the first
\* gravity sample and the per-axis means; the z mean of gravityMean is divided
\* by the length of the y series
angleVectors(processedSignals0) ==
  Let(processedSignals0, LAMBDA p :
    [gravity |-> <<At(p["tGravityAcc"]["x"], 0), At(p["tGravityAcc"]["y"], 0),
                   At(p["tGravityAcc"]["z"], 0)>>,
     gravityMean |-> <<MeanOver(p["tGravityAcc"]["x"], Len(p["tGravityAcc"]["x"])),
                       MeanOver(p["tGravityAcc"]["y"], Len(p["tGravityAcc"]["y"])),
                       MeanOver(p["tGravityAcc"]["z"], Len(p["tGravityAcc"]["y"]))>>,
     tBodyAccMean |-> [a \in 1..Len(Axes) |->
                         MeanOver(p["tBodyAcc"][Axes[a]], Len(p["tBodyAcc"][Axes[a]]))] @@ <<>>,
     tBodyAccJerkMean |-> [a \in 1..Len(Axes) |->
                         MeanOver(p["tBodyAccJerk"][Axes[a]], Len(p["tBodyAccJerk"][Axes[a]]))] @@ <<>>,
     tBodyGyroMean |-> [a \in 1..Len(Axes) |->
                         MeanOver(p["tBodyGyro"][Axes[a]], Len(p["tBodyGyro"][Axes[a]]))] @@ <<>>,
     tBodyGyroJerkMean |-> [a \in 1..Len(Axes) |->
                         MeanOver(p["tBodyGyroJerk"][Axes[a]], Len(p["tBodyGyroJerk"][Axes[a]]))] @@ <<>>])

\* The two operands of each angle feature, as fields of angleVectors, or a
\* unit vector of the device frame
angleOperands ==
  ("angle(tBodyAccMean,gravity)" :> <<"tBodyAccMean", "gravity">>) @@
  ("angle(tBodyAccJerkMean,gravityMean)" :> <<"tBodyAccJerkMean", "gravityMean">>) @@
  ("angle(tBodyGyroMean,gravityMean)" :> <<"tBodyGyroMean", "gravityMean">>) @@
  ("angle(tBodyGyroJerkMean,gravityMean)" :> <<"tBodyGyroJerkMean", "gravityMean">>) @@
  ("angle(x,gravityMean)" :> <<"x", "gravityMean">>) @@
  ("angle(y,gravityMean)" :> <<"y", "gravityMean">>) @@
  ("angle(z,gravityMean)" :> <<"z", "gravityMean">>)

\* [1, 0, 0], [0, 1, 0], [0, 0, 1]
unitVector(axis) == [a \in 1..Len(Axes) |-> IF Axes[a] = axis THEN Num(1) ELSE Num(0)] @@ <<>>

\* The operand of an angle feature named name
angleVector(vectors, name) ==
  IF name \in DOMAIN vectors THEN vectors[name] ELSE unitVector(name)

\* extractAngleFeatures(processedSignals)
extractAngleFeatures(processedSignals0) ==
  Let(angleVectors(processedSignals0), LAMBDA vectors :
    [feature \in DOMAIN angleOperands |->
       calculateAngle(angleVector(vectors, angleOperands[feature][1]),
                      angleVector(vectors, angleOperands[feature][2]))] @@ <<>>)

(***************************************************************************)
(* The keys of a feature vector, in the order the extractor writes them    *)
(***************************************************************************)
\* order = 4 of calculateARCoefficients
arOrder == 4

RECURSIVE Flatten(_)
Flatten(seqs) == IF seqs = <<>> THEN <<>> ELSE Head(seqs) \o Flatten(Tail(seqs))

\* The keys calculateTimeFeatures writes: the eight statistics, then
\* arCoeffs.forEach((coeff, i) => features[`arCoeff()${i + 1}`] = coeff)
calculateTimeFeaturesKeys ==
  <<"mean()", "std()", "mad()", "max()", "min()", "energy()", "iqr()", "entropy()">> \o
  [i \in 1..arOrder |-> "arCoeff()" \o ToString(i)]

\* The keys calculateFrequencyFeatures writes
calculateFrequencyFeaturesKeys ==
  <<"mean()", "std()", "mad()", "max()", "min()", "energy()", "iqr()", "entropy()",
    "meanFreq()", "maxInds", "skewness()", "kurtosis()">>

\* const bands = [{ start: 0, end: 8 }, ...] of calculateBandsEnergy
bands ==
  <<[start |-> 0, end |-> 8], [start |-> 8, end |-> 16], [start |-> 16, end |-> 24],
    [start |-> 24, end |-> 32], [start |-> 32, end |-> 40], [start |-> 40, end |-> 48],
    [start |-> 48, end |-> 56], [start |-> 56, end |-> 64], [start |-> 0, end |-> 16],
    [start |-> 16, end |-> 32], [start |-> 32, end |-> 48], [start |-> 48, end |-> 64],
    [start |-> 0, end |-> 24], [start |-> 24, end |-> 48]>>

\* A variant of BandKey that names a band by its start index as stored
BandKeyFromStart(band) == "bandsEnergy()-" \o ToString(band.start) \o "," \o ToString(band.end)

\* `bandsEnergy()-${band.start + 1},${band.end}`
BandKey(band) == "bandsEnergy()-" \o ToString(band.start + 1) \o "," \o ToString(band.end)

\* numBands of calculateBandsEnergy(magnitudes, 64)
numBands == 64

\* The magnitude spectrum extractFeatures computes from an interleaved
\* transform: magnitudes[i] = sqrt(fftData[2i]^2 + fftData[2i+1]^2)
magnitudeSpectrum(fftData0) ==
  Let(fftData0, LAMBDA fftData :
    Elements([i \in 1..(Len(fftData) \div 2) |->
       MathSqrt(Add(Mul(fftData[2 * i - 1], fftData[2 * i - 1]),
                    Mul(fftData[2 * i], fftData[2 * i])))]))

\* slice.reduce((sum, mag) => sum + mag ** 2, 0), from element i on
RECURSIVE SumSquaresFrom(_, _, _)
SumSquaresFrom(slice, i, sum) ==
  IF i > Len(slice) THEN sum
  ELSE Let(Add(sum, Mul(slice[i], slice[i])), LAMBDA sum2 : SumSquaresFrom(slice, i + 1, sum2))

\* calculateBandsEnergy(magnitudes, numBands): for every band the mean of
\* mag^2 over magnitudes.slice(band.start * bandSize, band.end * bandSize)
calculateBandsEnergy(magnitudes0, bandCount) ==
  Let2(magnitudes0, Len(magnitudes0) \div bandCount, LAMBDA magnitudes, bandSize :
    Let(Elements([b \in 1..Len(bands) |->
          Div(SumSquaresFrom(Slice(magnitudes, bands[b].start * bandSize,
                                   bands[b].end * bandSize), 1, Fin(0)),
              Num(bands[b].end * bandSize - bands[b].start * bandSize))]),
        LAMBDA energies :
          [key \in {BandKey(bands[b]) : b \in 1..Len(bands)} |->
             energies[CHOOSE b \in 1..Len(bands) : BandKey(bands[b]) = key]] @@ <<>>))

\* The keys calculateBandsEnergy writes
calculateBandsEnergyKeys == [b \in 1..Len(bands) |-> BandKey(bands[b])]

\* First forEach of extractFeatures, one signal type: the time features of each
\* axis, then sma() and the three correlations
TimeSignalKeys(signalType) ==
  Flatten([a \in 1..Len(Axes) |->
             [f \in 1..Len(calculateTimeFeaturesKeys) |->
                AxisKey(signalType, calculateTimeFeaturesKeys[f], Axes[a])]]) \o
  <<signalType \o "-sma()", signalType \o "-correlation()-x,y",
    signalType \o "-correlation()-x,z", signalType \o "-correlation()-y,z">>

\* Second and fourth forEach of extractFeatures, one magnitude signal type:
\* `${signalType}-${feature}` for each feature, then sma()
MagSignalKeys(signalType, featureKeys) ==
  [f \in 1..Len(featureKeys) |-> signalType \o "-" \o featureKeys[f]] \o
  <<signalType \o "-sma()">>

\* Third forEach of extractFeatures, one signal type: for each axis the
\* frequency features, sma() (written again for every axis) and the band energies
FrequencySignalKeys(signalType) ==
  Flatten([a \in 1..Len(Axes) |->
             [f \in 1..Len(calculateFrequencyFeaturesKeys) |->
                AxisKey(signalType, calculateFrequencyFeaturesKeys[f], Axes[a])] \o
             <<signalType \o "-sma()">> \o
             [b \in 1..Len(calculateBandsEnergyKeys) |->
                signalType \o "-" \o calculateBandsEnergyKeys[b] \o "-" \o Axes[a]]])

TimeMagSignalTypes ==
  <<"tBodyAccMag", "tGravityAccMag", "tBodyAccJerkMag", "tBodyGyroMag", "tBodyGyroJerkMag">>
FrequencySignalTypes == <<"fBodyAcc", "fBodyAccJerk", "fBodyGyro">>
FrequencyMagSignalTypes ==
  <<"fBodyAccMag", "fBodyBodyAccJerkMag", "fBodyBodyGyroMag", "fBodyBodyGyroJerkMag">>

\* The keys extractFeatures writes, in order
extractFeaturesKeys ==
  Flatten([s \in 1..Len(TimeSignalTypes) |-> TimeSignalKeys(TimeSignalTypes[s])]) \o
  Flatten([s \in 1..Len(TimeMagSignalTypes) |->
             MagSignalKeys(TimeMagSignalTypes[s], calculateTimeFeaturesKeys)]) \o
  Flatten([s \in 1..Len(FrequencySignalTypes) |-> FrequencySignalKeys(FrequencySignalTypes[s])]) \o
  Flatten([s \in 1..Len(FrequencyMagSignalTypes) |->
             MagSignalKeys(FrequencyMagSignalTypes[s], calculateFrequencyFeaturesKeys)])

\* The keys extractAngleFeatures writes, in order
extractAngleFeaturesKeys ==
  <<"angle(tBodyAccMean,gravity)", "angle(tBodyAccJerkMean,gravityMean)",
    "angle(tBodyGyroMean,gravityMean)", "angle(tBodyGyroJerkMean,gravityMean)",
    "angle(x,gravityMean)", "angle(y,gravityMean)", "angle(z,gravityMean)">>

\* Object.keys({ ...features, ...angleFeatures }) of processSignalWindow
processSignalWindowKeys == Range(extractFeaturesKeys) \cup Range(extractAngleFeaturesKeys)

\* const feature_list = [...] of the app
feature_list ==
  <<"tBodyAcc-mean()-x", "tBodyAcc-mean()-y", "tBodyAcc-mean()-z", "tBodyAcc-std()-x",
    "tBodyAcc-std()-y", "tBodyAcc-std()-z", "tBodyAcc-mad()-x", "tBodyAcc-mad()-y",
    "tBodyAcc-mad()-z", "tBodyAcc-max()-x", "tBodyAcc-max()-y", "tBodyAcc-max()-z",
    "tBodyAcc-min()-x", "tBodyAcc-min()-y", "tBodyAcc-min()-z", "tBodyAcc-sma()",
    "tBodyAcc-energy()-x", "tBodyAcc-energy()-y", "tBodyAcc-energy()-z", "tBodyAcc-iqr()-x",
    "tBodyAcc-iqr()-y", "tBodyAcc-iqr()-z", "tBodyAcc-entropy()-x", "tBodyAcc-entropy()-y",
    "tBodyAcc-entropy()-z", "tBodyAcc-arCoeff()1-x", "tBodyAcc-arCoeff()2-x",
    "tBodyAcc-arCoeff()3-x", "tBodyAcc-arCoeff()4-x", "tBodyAcc-arCoeff()1-y",
    "tBodyAcc-arCoeff()2-y", "tBodyAcc-arCoeff()3-y", "tBodyAcc-arCoeff()4-y",
    "tBodyAcc-arCoeff()1-z", "tBodyAcc-arCoeff()2-z", "tBodyAcc-arCoeff()3-z",
    "tBodyAcc-arCoeff()4-z", "tBodyAcc-correlation()-x,y", "tBodyAcc-correlation()-x,z",
    "tBodyAcc-correlation()-y,z", "tGravityAcc-mean()-x", "tGravityAcc-mean()-y",
    "tGravityAcc-mean()-z", "tGravityAcc-std()-x", "tGravityAcc-std()-y",
    "tGravityAcc-std()-z", "tGravityAcc-mad()-x", "tGravityAcc-mad()-y", "tGravityAcc-mad()-z",
    "tGravityAcc-max()-x", "tGravityAcc-max()-y", "tGravityAcc-max()-z", "tGravityAcc-min()-x",
    "tGravityAcc-min()-y", "tGravityAcc-min()-z", "tGravityAcc-sma()",
    "tGravityAcc-energy()-x", "tGravityAcc-energy()-y", "tGravityAcc-energy()-z",
    "tGravityAcc-iqr()-x", "tGravityAcc-iqr()-y", "tGravityAcc-iqr()-z",
    "tGravityAcc-entropy()-x", "tGravityAcc-entropy()-y", "tGravityAcc-entropy()-z",
    "tGravityAcc-arCoeff()1-x", "tGravityAcc-arCoeff()2-x", "tGravityAcc-arCoeff()3-x",
    "tGravityAcc-arCoeff()4-x", "tGravityAcc-arCoeff()1-y", "tGravityAcc-arCoeff()2-y",
    "tGravityAcc-arCoeff()3-y", "tGravityAcc-arCoeff()4-y", "tGravityAcc-arCoeff()1-z",
    "tGravityAcc-arCoeff()2-z", "tGravityAcc-arCoeff()3-z", "tGravityAcc-arCoeff()4-z",
    "tGravityAcc-correlation()-x,y", "tGravityAcc-correlation()-x,z",
    "tGravityAcc-correlation()-y,z", "tBodyAccJerk-mean()-x", "tBodyAccJerk-mean()-y",
    "tBodyAccJerk-mean()-z", "tBodyAccJerk-std()-x", "tBodyAccJerk-std()-y",
    "tBodyAccJerk-std()-z", "tBodyAccJerk-mad()-x", "tBodyAccJerk-mad()-y",
    "tBodyAccJerk-mad()-z", "tBodyAccJerk-max()-x", "tBodyAccJerk-max()-y",
    "tBodyAccJerk-max()-z", "tBodyAccJerk-min()-x", "tBodyAccJerk-min()-y",
    "tBodyAccJerk-min()-z", "tBodyAccJerk-sma()", "tBodyAccJerk-energy()-x",
    "tBodyAccJerk-energy()-y", "tBodyAccJerk-energy()-z", "tBodyAccJerk-iqr()-x",
    "tBodyAccJerk-iqr()-y", "tBodyAccJerk-iqr()-z", "tBodyAccJerk-entropy()-x",
    "tBodyAccJerk-entropy()-y", "tBodyAccJerk-entropy()-z", "tBodyAccJerk-arCoeff()1-x",
    "tBodyAccJerk-arCoeff()2-x", "tBodyAccJerk-arCoeff()3-x", "tBodyAccJerk-arCoeff()4-x",
    "tBodyAccJerk-arCoeff()1-y", "tBodyAccJerk-arCoeff()2-y", "tBodyAccJerk-arCoeff()3-y",
    "tBodyAccJerk-arCoeff()4-y", "tBodyAccJerk-arCoeff()1-z", "tBodyAccJerk-arCoeff()2-z",
    "tBodyAccJerk-arCoeff()3-z", "tBodyAccJerk-arCoeff()4-z", "tBodyAccJerk-correlation()-x,y",
    "tBodyAccJerk-correlation()-x,z", "tBodyAccJerk-correlation()-y,z", "tBodyGyro-mean()-x",
    "tBodyGyro-mean()-y", "tBodyGyro-mean()-z", "tBodyGyro-std()-x", "tBodyGyro-std()-y",
    "tBodyGyro-std()-z", "tBodyGyro-mad()-x", "tBodyGyro-mad()-y", "tBodyGyro-mad()-z",
    "tBodyGyro-max()-x", "tBodyGyro-max()-y", "tBodyGyro-max()-z", "tBodyGyro-min()-x",
    "tBodyGyro-min()-y", "tBodyGyro-min()-z", "tBodyGyro-sma()", "tBodyGyro-energy()-x",
    "tBodyGyro-energy()-y", "tBodyGyro-energy()-z", "tBodyGyro-iqr()-x", "tBodyGyro-iqr()-y",
    "tBodyGyro-iqr()-z", "tBodyGyro-entropy()-x", "tBodyGyro-entropy()-y",
    "tBodyGyro-entropy()-z", "tBodyGyro-arCoeff()1-x", "tBodyGyro-arCoeff()2-x",
    "tBodyGyro-arCoeff()3-x", "tBodyGyro-arCoeff()4-x", "tBodyGyro-arCoeff()1-y",
    "tBodyGyro-arCoeff()2-y", "tBodyGyro-arCoeff()3-y", "tBodyGyro-arCoeff()4-y",
    "tBodyGyro-arCoeff()1-z", "tBodyGyro-arCoeff()2-z", "tBodyGyro-arCoeff()3-z",
    "tBodyGyro-arCoeff()4-z", "tBodyGyro-correlation()-x,y", "tBodyGyro-correlation()-x,z",
    "tBodyGyro-correlation()-y,z", "tBodyGyroJerk-mean()-x", "tBodyGyroJerk-mean()-y",
    "tBodyGyroJerk-mean()-z", "tBodyGyroJerk-std()-x", "tBodyGyroJerk-std()-y",
    "tBodyGyroJerk-std()-z", "tBodyGyroJerk-mad()-x", "tBodyGyroJerk-mad()-y",
    "tBodyGyroJerk-mad()-z", "tBodyGyroJerk-max()-x", "tBodyGyroJerk-max()-y",
    "tBodyGyroJerk-max()-z", "tBodyGyroJerk-min()-x", "tBodyGyroJerk-min()-y",
    "tBodyGyroJerk-min()-z", "tBodyGyroJerk-sma()", "tBodyGyroJerk-energy()-x",
    "tBodyGyroJerk-energy()-y", "tBodyGyroJerk-energy()-z", "tBodyGyroJerk-iqr()-x",
    "tBodyGyroJerk-iqr()-y", "tBodyGyroJerk-iqr()-z", "tBodyGyroJerk-entropy()-x",
    "tBodyGyroJerk-entropy()-y", "tBodyGyroJerk-entropy()-z", "tBodyGyroJerk-arCoeff()1-x",
    "tBodyGyroJerk-arCoeff()2-x", "tBodyGyroJerk-arCoeff()3-x", "tBodyGyroJerk-arCoeff()4-x",
    "tBodyGyroJerk-arCoeff()1-y", "tBodyGyroJerk-arCoeff()2-y", "tBodyGyroJerk-arCoeff()3-y",
    "tBodyGyroJerk-arCoeff()4-y", "tBodyGyroJerk-arCoeff()1-z", "tBodyGyroJerk-arCoeff()2-z",
    "tBodyGyroJerk-arCoeff()3-z", "tBodyGyroJerk-arCoeff()4-z",
    "tBodyGyroJerk-correlation()-x,y", "tBodyGyroJerk-correlation()-x,z",
    "tBodyGyroJerk-correlation()-y,z", "tBodyAccMag-mean()", "tBodyAccMag-std()",
    "tBodyAccMag-mad()", "tBodyAccMag-max()", "tBodyAccMag-min()", "tBodyAccMag-sma()",
    "tBodyAccMag-energy()", "tBodyAccMag-iqr()", "tBodyAccMag-entropy()",
    "tBodyAccMag-arCoeff()1", "tBodyAccMag-arCoeff()2", "tBodyAccMag-arCoeff()3",
    "tBodyAccMag-arCoeff()4", "tGravityAccMag-mean()", "tGravityAccMag-std()",
    "tGravityAccMag-mad()", "tGravityAccMag-max()", "tGravityAccMag-min()",
    "tGravityAccMag-sma()", "tGravityAccMag-energy()", "tGravityAccMag-iqr()",
    "tGravityAccMag-entropy()", "tGravityAccMag-arCoeff()1", "tGravityAccMag-arCoeff()2",
    "tGravityAccMag-arCoeff()3", "tGravityAccMag-arCoeff()4", "tBodyAccJerkMag-mean()",
    "tBodyAccJerkMag-std()", "tBodyAccJerkMag-mad()", "tBodyAccJerkMag-max()",
    "tBodyAccJerkMag-min()", "tBodyAccJerkMag-sma()", "tBodyAccJerkMag-energy()",
    "tBodyAccJerkMag-iqr()", "tBodyAccJerkMag-entropy()", "tBodyAccJerkMag-arCoeff()1",
    "tBodyAccJerkMag-arCoeff()2", "tBodyAccJerkMag-arCoeff()3", "tBodyAccJerkMag-arCoeff()4",
    "tBodyGyroMag-mean()", "tBodyGyroMag-std()", "tBodyGyroMag-mad()", "tBodyGyroMag-max()",
    "tBodyGyroMag-min()", "tBodyGyroMag-sma()", "tBodyGyroMag-energy()", "tBodyGyroMag-iqr()",
    "tBodyGyroMag-entropy()", "tBodyGyroMag-arCoeff()1", "tBodyGyroMag-arCoeff()2",
    "tBodyGyroMag-arCoeff()3", "tBodyGyroMag-arCoeff()4", "tBodyGyroJerkMag-mean()",
    "tBodyGyroJerkMag-std()", "tBodyGyroJerkMag-mad()", "tBodyGyroJerkMag-max()",
    "tBodyGyroJerkMag-min()", "tBodyGyroJerkMag-sma()", "tBodyGyroJerkMag-energy()",
    "tBodyGyroJerkMag-iqr()", "tBodyGyroJerkMag-entropy()", "tBodyGyroJerkMag-arCoeff()1",
    "tBodyGyroJerkMag-arCoeff()2", "tBodyGyroJerkMag-arCoeff()3",
    "tBodyGyroJerkMag-arCoeff()4", "fBodyAcc-mean()-x", "fBodyAcc-mean()-y",
    "fBodyAcc-mean()-z", "fBodyAcc-std()-x", "fBodyAcc-std()-y", "fBodyAcc-std()-z",
    "fBodyAcc-mad()-x", "fBodyAcc-mad()-y", "fBodyAcc-mad()-z", "fBodyAcc-max()-x",
    "fBodyAcc-max()-y", "fBodyAcc-max()-z", "fBodyAcc-min()-x", "fBodyAcc-min()-y",
    "fBodyAcc-min()-z", "fBodyAcc-sma()", "fBodyAcc-energy()-x", "fBodyAcc-energy()-y",
    "fBodyAcc-energy()-z", "fBodyAcc-iqr()-x", "fBodyAcc-iqr()-y", "fBodyAcc-iqr()-z",
    "fBodyAcc-entropy()-x", "fBodyAcc-entropy()-y", "fBodyAcc-entropy()-z",
    "fBodyAcc-maxInds-x", "fBodyAcc-maxInds-y", "fBodyAcc-maxInds-z", "fBodyAcc-meanFreq()-x",
    "fBodyAcc-meanFreq()-y", "fBodyAcc-meanFreq()-z", "fBodyAcc-skewness()-x",
    "fBodyAcc-kurtosis()-x", "fBodyAcc-skewness()-y", "fBodyAcc-kurtosis()-y",
    "fBodyAcc-skewness()-z", "fBodyAcc-kurtosis()-z", "fBodyAcc-bandsEnergy()-1,8-x",
    "fBodyAcc-bandsEnergy()-9,16-x", "fBodyAcc-bandsEnergy()-17,24-x",
    "fBodyAcc-bandsEnergy()-25,32-x", "fBodyAcc-bandsEnergy()-33,40-x",
    "fBodyAcc-bandsEnergy()-41,48-x", "fBodyAcc-bandsEnergy()-49,56-x",
    "fBodyAcc-bandsEnergy()-57,64-x", "fBodyAcc-bandsEnergy()-1,16-x",
    "fBodyAcc-bandsEnergy()-17,32-x", "fBodyAcc-bandsEnergy()-33,48-x",
    "fBodyAcc-bandsEnergy()-49,64-x", "fBodyAcc-bandsEnergy()-1,24-x",
    "fBodyAcc-bandsEnergy()-25,48-x", "fBodyAcc-bandsEnergy()-1,8-y",
    "fBodyAcc-bandsEnergy()-9,16-y", "fBodyAcc-bandsEnergy()-17,24-y",
    "fBodyAcc-bandsEnergy()-25,32-y", "fBodyAcc-bandsEnergy()-33,40-y",
    "fBodyAcc-bandsEnergy()-41,48-y", "fBodyAcc-bandsEnergy()-49,56-y",
    "fBodyAcc-bandsEnergy()-57,64-y", "fBodyAcc-bandsEnergy()-1,16-y",
    "fBodyAcc-bandsEnergy()-17,32-y", "fBodyAcc-bandsEnergy()-33,48-y",
    "fBodyAcc-bandsEnergy()-49,64-y", "fBodyAcc-bandsEnergy()-1,24-y",
    "fBodyAcc-bandsEnergy()-25,48-y", "fBodyAcc-bandsEnergy()-1,8-z",
    "fBodyAcc-bandsEnergy()-9,16-z", "fBodyAcc-bandsEnergy()-17,24-z",
    "fBodyAcc-bandsEnergy()-25,32-z", "fBodyAcc-bandsEnergy()-33,40-z",
    "fBodyAcc-bandsEnergy()-41,48-z", "fBodyAcc-bandsEnergy()-49,56-z",
    "fBodyAcc-bandsEnergy()-57,64-z", "fBodyAcc-bandsEnergy()-1,16-z",
    "fBodyAcc-bandsEnergy()-17,32-z", "fBodyAcc-bandsEnergy()-33,48-z",
    "fBodyAcc-bandsEnergy()-49,64-z", "fBodyAcc-bandsEnergy()-1,24-z",
    "fBodyAcc-bandsEnergy()-25,48-z", "fBodyAccJerk-mean()-x", "fBodyAccJerk-mean()-y",
    "fBodyAccJerk-mean()-z", "fBodyAccJerk-std()-x", "fBodyAccJerk-std()-y",
    "fBodyAccJerk-std()-z", "fBodyAccJerk-mad()-x", "fBodyAccJerk-mad()-y",
    "fBodyAccJerk-mad()-z", "fBodyAccJerk-max()-x", "fBodyAccJerk-max()-y",
    "fBodyAccJerk-max()-z", "fBodyAccJerk-min()-x", "fBodyAccJerk-min()-y",
    "fBodyAccJerk-min()-z", "fBodyAccJerk-sma()", "fBodyAccJerk-energy()-x",
    "fBodyAccJerk-energy()-y", "fBodyAccJerk-energy()-z", "fBodyAccJerk-iqr()-x",
    "fBodyAccJerk-iqr()-y", "fBodyAccJerk-iqr()-z", "fBodyAccJerk-entropy()-x",
    "fBodyAccJerk-entropy()-y", "fBodyAccJerk-entropy()-z", "fBodyAccJerk-maxInds-x",
    "fBodyAccJerk-maxInds-y", "fBodyAccJerk-maxInds-z", "fBodyAccJerk-meanFreq()-x",
    "fBodyAccJerk-meanFreq()-y", "fBodyAccJerk-meanFreq()-z", "fBodyAccJerk-skewness()-x",
    "fBodyAccJerk-kurtosis()-x", "fBodyAccJerk-skewness()-y", "fBodyAccJerk-kurtosis()-y",
    "fBodyAccJerk-skewness()-z", "fBodyAccJerk-kurtosis()-z",
    "fBodyAccJerk-bandsEnergy()-1,8-x", "fBodyAccJerk-bandsEnergy()-9,16-x",
    "fBodyAccJerk-bandsEnergy()-17,24-x", "fBodyAccJerk-bandsEnergy()-25,32-x",
    "fBodyAccJerk-bandsEnergy()-33,40-x", "fBodyAccJerk-bandsEnergy()-41,48-x",
    "fBodyAccJerk-bandsEnergy()-49,56-x", "fBodyAccJerk-bandsEnergy()-57,64-x",
    "fBodyAccJerk-bandsEnergy()-1,16-x", "fBodyAccJerk-bandsEnergy()-17,32-x",
    "fBodyAccJerk-bandsEnergy()-33,48-x", "fBodyAccJerk-bandsEnergy()-49,64-x",
    "fBodyAccJerk-bandsEnergy()-1,24-x", "fBodyAccJerk-bandsEnergy()-25,48-x",
    "fBodyAccJerk-bandsEnergy()-1,8-y", "fBodyAccJerk-bandsEnergy()-9,16-y",
    "fBodyAccJerk-bandsEnergy()-17,24-y", "fBodyAccJerk-bandsEnergy()-25,32-y",
    "fBodyAccJerk-bandsEnergy()-33,40-y", "fBodyAccJerk-bandsEnergy()-41,48-y",
    "fBodyAccJerk-bandsEnergy()-49,56-y", "fBodyAccJerk-bandsEnergy()-57,64-y",
    "fBodyAccJerk-bandsEnergy()-1,16-y", "fBodyAccJerk-bandsEnergy()-17,32-y",
    "fBodyAccJerk-bandsEnergy()-33,48-y", "fBodyAccJerk-bandsEnergy()-49,64-y",
    "fBodyAccJerk-bandsEnergy()-1,24-y", "fBodyAccJerk-bandsEnergy()-25,48-y",
    "fBodyAccJerk-bandsEnergy()-1,8-z", "fBodyAccJerk-bandsEnergy()-9,16-z",
    "fBodyAccJerk-bandsEnergy()-17,24-z", "fBodyAccJerk-bandsEnergy()-25,32-z",
    "fBodyAccJerk-bandsEnergy()-33,40-z", "fBodyAccJerk-bandsEnergy()-41,48-z",
    "fBodyAccJerk-bandsEnergy()-49,56-z", "fBodyAccJerk-bandsEnergy()-57,64-z",
    "fBodyAccJerk-bandsEnergy()-1,16-z", "fBodyAccJerk-bandsEnergy()-17,32-z",
    "fBodyAccJerk-bandsEnergy()-33,48-z", "fBodyAccJerk-bandsEnergy()-49,64-z",
    "fBodyAccJerk-bandsEnergy()-1,24-z", "fBodyAccJerk-bandsEnergy()-25,48-z",
    "fBodyGyro-mean()-x", "fBodyGyro-mean()-y", "fBodyGyro-mean()-z", "fBodyGyro-std()-x",
    "fBodyGyro-std()-y", "fBodyGyro-std()-z", "fBodyGyro-mad()-x", "fBodyGyro-mad()-y",
    "fBodyGyro-mad()-z", "fBodyGyro-max()-x", "fBodyGyro-max()-y", "fBodyGyro-max()-z",
    "fBodyGyro-min()-x", "fBodyGyro-min()-y", "fBodyGyro-min()-z", "fBodyGyro-sma()",
    "fBodyGyro-energy()-x", "fBodyGyro-energy()-y", "fBodyGyro-energy()-z",
    "fBodyGyro-iqr()-x", "fBodyGyro-iqr()-y", "fBodyGyro-iqr()-z", "fBodyGyro-entropy()-x",
    "fBodyGyro-entropy()-y", "fBodyGyro-entropy()-z", "fBodyGyro-maxInds-x",
    "fBodyGyro-maxInds-y", "fBodyGyro-maxInds-z", "fBodyGyro-meanFreq()-x",
    "fBodyGyro-meanFreq()-y", "fBodyGyro-meanFreq()-z", "fBodyGyro-skewness()-x",
    "fBodyGyro-kurtosis()-x", "fBodyGyro-skewness()-y", "fBodyGyro-kurtosis()-y",
    "fBodyGyro-skewness()-z", "fBodyGyro-kurtosis()-z", "fBodyGyro-bandsEnergy()-1,8-x",
    "fBodyGyro-bandsEnergy()-9,16-x", "fBodyGyro-bandsEnergy()-17,24-x",
    "fBodyGyro-bandsEnergy()-25,32-x", "fBodyGyro-bandsEnergy()-33,40-x",
    "fBodyGyro-bandsEnergy()-41,48-x", "fBodyGyro-bandsEnergy()-49,56-x",
    "fBodyGyro-bandsEnergy()-57,64-x", "fBodyGyro-bandsEnergy()-1,16-x",
    "fBodyGyro-bandsEnergy()-17,32-x", "fBodyGyro-bandsEnergy()-33,48-x",
    "fBodyGyro-bandsEnergy()-49,64-x", "fBodyGyro-bandsEnergy()-1,24-x",
    "fBodyGyro-bandsEnergy()-25,48-x", "fBodyGyro-bandsEnergy()-1,8-y",
    "fBodyGyro-bandsEnergy()-9,16-y", "fBodyGyro-bandsEnergy()-17,24-y",
    "fBodyGyro-bandsEnergy()-25,32-y", "fBodyGyro-bandsEnergy()-33,40-y",
    "fBodyGyro-bandsEnergy()-41,48-y", "fBodyGyro-bandsEnergy()-49,56-y",
    "fBodyGyro-bandsEnergy()-57,64-y", "fBodyGyro-bandsEnergy()-1,16-y",
    "fBodyGyro-bandsEnergy()-17,32-y", "fBodyGyro-bandsEnergy()-33,48-y",
    "fBodyGyro-bandsEnergy()-49,64-y", "fBodyGyro-bandsEnergy()-1,24-y",
    "fBodyGyro-bandsEnergy()-25,48-y", "fBodyGyro-bandsEnergy()-1,8-z",
    "fBodyGyro-bandsEnergy()-9,16-z", "fBodyGyro-bandsEnergy()-17,24-z",
    "fBodyGyro-bandsEnergy()-25,32-z", "fBodyGyro-bandsEnergy()-33,40-z",
    "fBodyGyro-bandsEnergy()-41,48-z", "fBodyGyro-bandsEnergy()-49,56-z",
    "fBodyGyro-bandsEnergy()-57,64-z", "fBodyGyro-bandsEnergy()-1,16-z",
    "fBodyGyro-bandsEnergy()-17,32-z", "fBodyGyro-bandsEnergy()-33,48-z",
    "fBodyGyro-bandsEnergy()-49,64-z", "fBodyGyro-bandsEnergy()-1,24-z",
    "fBodyGyro-bandsEnergy()-25,48-z", "fBodyAccMag-mean()", "fBodyAccMag-std()",
    "fBodyAccMag-mad()", "fBodyAccMag-max()", "fBodyAccMag-min()", "fBodyAccMag-sma()",
    "fBodyAccMag-energy()", "fBodyAccMag-iqr()", "fBodyAccMag-entropy()",
    "fBodyAccMag-maxInds", "fBodyAccMag-meanFreq()", "fBodyAccMag-skewness()",
    "fBodyAccMag-kurtosis()", "fBodyBodyAccJerkMag-mean()", "fBodyBodyAccJerkMag-std()",
    "fBodyBodyAccJerkMag-mad()", "fBodyBodyAccJerkMag-max()", "fBodyBodyAccJerkMag-min()",
    "fBodyBodyAccJerkMag-sma()", "fBodyBodyAccJerkMag-energy()", "fBodyBodyAccJerkMag-iqr()",
    "fBodyBodyAccJerkMag-entropy()", "fBodyBodyAccJerkMag-maxInds",
    "fBodyBodyAccJerkMag-meanFreq()", "fBodyBodyAccJerkMag-skewness()",
    "fBodyBodyAccJerkMag-kurtosis()", "fBodyBodyGyroMag-mean()", "fBodyBodyGyroMag-std()",
    "fBodyBodyGyroMag-mad()", "fBodyBodyGyroMag-max()", "fBodyBodyGyroMag-min()",
    "fBodyBodyGyroMag-sma()", "fBodyBodyGyroMag-energy()", "fBodyBodyGyroMag-iqr()",
    "fBodyBodyGyroMag-entropy()", "fBodyBodyGyroMag-maxInds", "fBodyBodyGyroMag-meanFreq()",
    "fBodyBodyGyroMag-skewness()", "fBodyBodyGyroMag-kurtosis()",
    "fBodyBodyGyroJerkMag-mean()", "fBodyBodyGyroJerkMag-std()", "fBodyBodyGyroJerkMag-mad()",
    "fBodyBodyGyroJerkMag-max()", "fBodyBodyGyroJerkMag-min()", "fBodyBodyGyroJerkMag-sma()",
    "fBodyBodyGyroJerkMag-energy()", "fBodyBodyGyroJerkMag-iqr()",
    "fBodyBodyGyroJerkMag-entropy()", "fBodyBodyGyroJerkMag-maxInds",
    "fBodyBodyGyroJerkMag-meanFreq()", "fBodyBodyGyroJerkMag-skewness()",
    "fBodyBodyGyroJerkMag-kurtosis()", "angle(tBodyAccMean,gravity)",
    "angle(tBodyAccJerkMean,gravityMean)", "angle(tBodyGyroMean,gravityMean)",
    "angle(tBodyGyroJerkMean,gravityMean)", "angle(x,gravityMean)", "angle(y,gravityMean)",
    "angle(z,gravityMean)">>

(***************************************************************************)
(* SignalProcessor.processSensorData                                       *)
(***************************************************************************)
\* SignalProcessor's own window length (private readonly windowSize)
spWindowSize == 128

RECURSIVE WindowLoop(_, _, _)
WindowLoop(readings0, i, windows0) ==
  IF i < Len(readings0) - spWindowSize
  THEN Let(Append(windows0, Slice(readings0, i, i + spWindowSize)), LAMBDA windows2 :
         WindowLoop(readings0, i + spWindowSize \div 2, windows2))
  ELSE windows0

\* The windowing loop at the head of processSensorData: the windows it pushes
processSensorDataWindows(readings0) == Let(readings0, LAMBDA r : WindowLoop(r, 0, <<>>))

\* 10000 * cos(2 pi j / 8) for j = 0..7: the twiddle factors of the transforms
\* of sizes 2, 4 and 8
CosEighth == <<10000, 7071, 0, -7071, -10000, -7071, 0, 7071>>

CosTurn(j) == Fin((CosEighth[(j % 8) + 1] * Scale) \div 10000)
SinTurn(j) == CosTurn(j + 6)

\* Math.pow(2, Math.ceil(Math.log2(n))) for n >= 1
RECURSIVE PowerOfTwoFrom(_, _)
PowerOfTwoFrom(p, n) == IF p >= n THEN p ELSE PowerOfTwoFrom(2 * p, n)

\* fft(data) for 2 to 8 samples: data is padded with zeros to fftSize, and
\* the array returned interleaves the real and imaginary parts of the
\* discrete Fourier transform, out[2k] + i out[2k+1] =
\* sum over n of data[n] * exp(-2 pi i k n / fftSize).  The rounding of the
\* Float32Array is not modelled.
fft(data0) ==
  Let2(data0, PowerOfTwoFrom(1, Len(data0)), LAMBDA data, fftSize :
    Elements([j \in 1..(2 * fftSize) |->
       Sum(Elements([n \in 1..Len(data) |->
             Mul(data[n],
                 IF j % 2 = 1
                 THEN CosTurn(((j - 1) \div 2) * (n - 1) * (8 \div fftSize))
                 ELSE Neg(SinTurn(((j - 1) \div 2) * (n - 1) * (8 \div fftSize))))]))]))

\* processSensorData(readings, cutoffFreq = 20): the frequency member of the
\* result.  frequencyDomain of an axis is fft(bodyComponent) of processAxis;
\* bodyFreqMag is calculateMagnitude of the three arrays; body and bodyJerk
\* are both built from them.
processSensorDataFrequency(readings0, cutoffFreq) ==
  Let(readings0, LAMBDA r :
    Let(Elements([i \in 1..Len(r) |-> r[i].timestamp]), LAMBDA timestamps :
      Let([axis \in Range(Axes) |->
             fft(processAxis(Elements([i \in 1..Len(r) |-> r[i][axis]]),
                             timestamps, cutoffFreq).bodyComponent)] @@ <<>>,
          LAMBDA frequencyDomain :
            Let(calculateMagnitude(frequencyDomain["x"], frequencyDomain["y"],
                                   frequencyDomain["z"]),
                LAMBDA bodyFreqMag :
                  [body |-> [x |-> frequencyDomain["x"], y |-> frequencyDomain["y"],
                             z |-> frequencyDomain["z"], magnitude |-> bodyFreqMag],
                   bodyJerk |-> [x |-> frequencyDomain["x"], y |-> frequencyDomain["y"],
                                 z |-> frequencyDomain["z"], magnitude |-> bodyFreqMag]]))))

\* new Array(data.length - 1) throws for no reading, and the FFT constructor
\* refuses the size 1 that fft derives from a single reading
processSensorDataThrows(readings0) == Len(readings0) <= 1

\* { x: xProcessed.c, y: yProcessed.c, z: zProcessed.c,
\*   magnitude: calculateMagnitude(xProcessed.c, yProcessed.c, zProcessed.c) }
\* for a component c of processAxis
SignalGroup(processed, component) ==
  [part \in Range(Axes) \cup {"magnitude"} |->
     IF part = "magnitude"
     THEN calculateMagnitude(processed["x"][component], processed["y"][component],
                             processed["z"][component])
     ELSE processed[part][component]]

\* processSensorData(readings, cutoffFreq = 20): the time-domain signals
processSensorData(readings0, cutoffFreq) ==
  Let(readings0, LAMBDA r :
    Let(Elements([i \in 1..Len(r) |-> r[i].timestamp]), LAMBDA timestamps :
      Let([axis \in Range(Axes) |->
             processAxis(Elements([i \in 1..Len(r) |-> r[i][axis]]), timestamps, cutoffFreq)]
          @@ <<>>,
          LAMBDA processed :
            [body |-> SignalGroup(processed, "bodyComponent"),
             gravity |-> SignalGroup(processed, "gravityComponent"),
             bodyJerk |-> SignalGroup(processed, "jerk")])))

(***************************************************************************)
(* The app (src/app/(tabs)/index.tsx)                                      *)
(***************************************************************************)
\* The app's constants, scaled down: the code has windowSize = 128,
\* slideSize = 64 and targetFeatureSets = 25.
windowSize == 6
slideSize == 3
targetFeatureSets == 3
requiredSamples == windowSize + slideSize * (targetFeatureSets - 1)

\* Sensor events delivered to one listener beyond requiredSamples
MaxExtra == 1
\* Presses of the Generate button
MaxPresses == 1
\* Largest arrival number at which a window handed to processSignalWindow starts
MaxOffset == 3
\* Rows of a batch handed to normalizeFeatures on its own
MaxRows == 2
\* Readings handed to the windowing loop of processSensorData
MaxReadings == 256

\* row[key]; a row without the key yields undefined, which Math.min and
\* Math.max turn into NaN
Cell(row, key) == IF key \in DOMAIN row THEN row[key] ELSE NaN

\* A variant of normalizeFeatures that takes the minimum and maximum of one
\* key's column and rescales every key with them
normalizeFeaturesOneRange(featureRows0) ==
  Let(featureRows0, LAMBDA rows :
    Let(Let(Elements([r \in 1..Len(rows) |->
                        Cell(rows[r], CHOOSE key \in DOMAIN rows[1] : TRUE)]),
            LAMBDA values : [min |-> MathMin(values), max |-> MathMax(values)]),
        LAMBDA range :
          Elements([r \in 1..Len(rows) |->
            [key \in DOMAIN rows[r] |->
               IF StrictEq(range.max, range.min) THEN Fin(0)
               ELSE Add(Num(-1),
                        Div(Mul(Num(2), Sub(rows[r][key], range.min)),
                            Sub(range.max, range.min)))] @@ <<>>])))

\* normalizeFeatures(featureRows)
normalizeFeatures(featureRows0) ==
  Let(featureRows0, LAMBDA rows :
    Let([key \in DOMAIN rows[1] |->
           Let(Elements([r \in 1..Len(rows) |-> Cell(rows[r], key)]),
               LAMBDA values : [min |-> MathMin(values), max |-> MathMax(values)])] @@ <<>>,
        LAMBDA minMax :
          Elements([r \in 1..Len(rows) |->
            [key \in (DOMAIN rows[r]) \cup (DOMAIN minMax) |->
               IF key \notin DOMAIN minMax THEN rows[r][key]
               ELSE IF StrictEq(minMax[key].max, minMax[key].min) THEN Fin(0)
               ELSE Add(Num(-1),
                        Div(Mul(Num(2), Sub(Cell(rows[r], key), minMax[key].min)),
                            Sub(minMax[key].max, minMax[key].min)))] @@ <<>>])))

\* processSignalWindow(accWindow, gyroWindow): the followed features
processSignalWindow(accWindow0, gyroWindow0) ==
  Let2(processSensorData(accWindow0, Num(20)), processSensorData(gyroWindow0, Num(20)),
       LAMBDA accProcessedSignals, gyroProcessedSignals :
         extractFeatures([tBodyAcc |-> accProcessedSignals.body,
                          tGravityAcc |-> accProcessedSignals.gravity,
                          tBodyAccJerk |-> accProcessedSignals.bodyJerk,
                          tBodyGyro |-> gyroProcessedSignals.body,
                          tBodyGyroJerk |-> gyroProcessedSignals.bodyJerk]))

\* What the device is doing while a sensor is read: carried while walking
\* ("walk"), lying flat on a table ("rest": x = 0, y = 0, z = 1 for the
\* accelerometer in g), not rotating ("still": the gyroscope reads 0 on every
\* axis), at rest for the first windowSize readings and walking afterwards
\* ("pause"), or walking with the first reading delivered twice under one
\* timestamp ("stutter").
AccSources == {"walk", "rest", "pause", "stutter"}
GyroSources == {"walk", "still"}

\* The sensors of a run of the app: <<accelerometer, gyroscope>>
Scenarios ==
  {<<"walk", "walk">>, <<"pause", "walk">>, <<"stutter", "walk">>, <<"walk", "still">>}

WalkValue(axis, n) ==
  IF axis = "x" THEN (n * n + n \div 2) % 4
  ELSE IF axis = "y" THEN (n * n * n + 2 * n + 1) % 5
  ELSE (3 * n + (n \div 3)) % 4

\* The reading a listener is handed as its arrival number n = 0, 1, ...
SourceReading(source, n) ==
  [axis \in Range(Axes) |->
     IF source = "still" THEN Num(0)
     ELSE IF source = "rest" \/ (source = "pause" /\ n < windowSize)
          THEN (IF axis = "z" THEN Num(1) ELSE Num(0))
     ELSE IF source = "stutter" /\ n = 0 THEN Num(WalkValue(axis, 1))
     ELSE Num(WalkValue(axis, n))] @@
  [field \in {"timestamp"} |-> IF source = "stutter" /\ n = 0 THEN 1000 ELSE 1000 * n]

\* The windowSize readings of a source from arrival number offset on
SourceWindow(source, offset) ==
  Elements([j \in 1..windowSize |-> SourceReading(source, offset + j - 1)])

\* A variant of SliceLoop whose windows do not overlap: window i starts at
\* sample i * windowSize
RECURSIVE SliceLoopDisjoint(_, _, _)
SliceLoopDisjoint(data, i, windows0) ==
  IF i < targetFeatureSets
  THEN Let(Append(windows0, Slice(data, i * windowSize, i * windowSize + windowSize)),
           LAMBDA windows2 : SliceLoopDisjoint(data, i + 1, windows2))
  ELSE windows0

\* for (let i = 0; i < targetFeatureSets; i++) { ... slice ... } : the windows
RECURSIVE SliceLoop(_, _, _)
SliceLoop(data, i, windows0) ==
  IF i < targetFeatureSets
  THEN Let(Append(windows0, Slice(data, i * slideSize, i * slideSize + windowSize)),
           LAMBDA windows2 : SliceLoop(data, i + 1, windows2))
  ELSE windows0

\* A variant of ExtractLoop that puts each new row in front of the earlier ones
RECURSIVE ExtractLoopReversed(_, _, _, _)
ExtractLoopReversed(accWins, gyroWins, i, newRows) ==
  IF i < targetFeatureSets
  THEN Let(<<processSignalWindow(accWins[i + 1], gyroWins[i + 1])>> \o newRows,
           LAMBDA newRows2 : ExtractLoopReversed(accWins, gyroWins, i + 1, newRows2))
  ELSE newRows

\* A variant of ExtractLoop that leaves the loop one window early
RECURSIVE ExtractLoopShort(_, _, _, _)
ExtractLoopShort(accWins, gyroWins, i, newRows) ==
  IF i < targetFeatureSets - 1
  THEN Let(Append(newRows, processSignalWindow(accWins[i + 1], gyroWins[i + 1])),
           LAMBDA newRows2 : ExtractLoopShort(accWins, gyroWins, i + 1, newRows2))
  ELSE newRows

\* for (...) { newFeatures.push(processSignalWindow(accWindow, gyroWindow)) }
RECURSIVE ExtractLoop(_, _, _, _)
ExtractLoop(accWins, gyroWins, i, newRows) ==
  IF i < targetFeatureSets
  THEN Let(Append(newRows, processSignalWindow(accWins[i + 1], gyroWins[i + 1])),
           LAMBDA newRows2 : ExtractLoop(accWins, gyroWins, i + 1, newRows2))
  ELSE newRows

\* A variant of InsufficientData that looks at the accelerometer buffer only,
\* as the progress bar does
InsufficientAcc(acc, gyro) == Len(acc) < requiredSamples

\* if (accData.length < requiredSamples || gyroData.length < requiredSamples)
InsufficientData(acc, gyro) == Len(acc) < requiredSamples \/ Len(gyro) < requiredSamples

\* A variant of ButtonDisabled that looks at the progress only
ButtonDisabledByProgress(processing, progress) == Lt(progress, Num(100))

\* disabled={isProcessing || dataCollectionProgress < 100}
ButtonDisabled(processing, progress) == processing \/ Lt(progress, Num(100))

\* Math.min((updatedData.length / requiredSamples) * 100, 100)
Progress(len) == MathMin(<<Mul(Div(Num(len), Num(requiredSamples)), Num(100)), Num(100)>>)

\* A variant of Buffered that, once the buffer is full, drops the new reading
BufferedDropNewest(prevData, reading) ==
  Let(Append(prevData, reading), LAMBDA updatedData :
    IF Len(updatedData) > requiredSamples THEN prevData ELSE updatedData)

\* const updatedData = [...prevData, reading];
\* if (updatedData.length > requiredSamples) updatedData.shift();
Buffered(prevData, reading) ==
  Let(Append(prevData, reading), LAMBDA updatedData :
    IF Len(updatedData) > requiredSamples THEN Tail(updatedData) ELSE updatedData)

\* The values of the batches handed to normalizeFeatures on its own, and
\* their keys
NormValues == {Fin(0), Fin(Scale), Fin(3 * Scale), NaN}
NormKeys == {"tBodyAcc-mean()-x", "tBodyGyro-arCoeff()1-z"}

\* The batches of n rows over NormKeys
Batches(n) == [1..n -> [NormKeys -> NormValues]]

\* A row object handed to the export is given by its entries <<key, value>> in
\* insertion order, as Object.entries lists them.
\* `column in row`
HasKey(row, key) == \E e \in Range(row) : e[1] = key

\* row[key] of a key the row has
ValueOf(row, key) == (CHOOSE e \in Range(row) : e[1] = key)[2]

\* row[feature] || 0: 0 for a missing feature, for NaN and for 0
OrZero(row, feature) ==
  IF ~HasKey(row, feature) THEN Num(0)
  ELSE IF IsNaN(ValueOf(row, feature)) \/ ValueOf(row, feature) = Num(0) THEN Num(0)
  ELSE ValueOf(row, feature)

\* A variant of saveFeaturesToFile that writes the values of a row in the
\* order of the row's own keys
saveFeaturesToFileRowOrder(features0) ==
  Let(features0, LAMBDA features :
    Elements([r \in 1..Len(features) |->
       Elements([c \in 1..Len(features[r]) |-> features[r][c][2]])]))

\* saveFeaturesToFile(features): the rows of fileContent, each the numbers
\* handed to toExponential(7), in the order they are joined
saveFeaturesToFile(features0) ==
  Let(features0, LAMBDA features :
    Elements([r \in 1..Len(features) |->
       Elements([c \in 1..Len(feature_list) |-> OrZero(features[r], feature_list[c])])]))

\* if (featureTable.length === 0) of saveFeaturesToCSV
NoFeatures(table) == Len(table) = 0

\* saveFeaturesToCSV of the earlier app, on its featureTable: headerRow, and
\* the dataRows, each the numbers handed to toFixed(6) in the order they are
\* joined
saveFeaturesToCSV(featureTable0) ==
  Let(featureTable0, LAMBDA table :
    [headerRow |-> feature_list,
     dataRows |->
       Elements([r \in 1..Len(table) |->
          Elements([c \in 1..Len(feature_list) |->
             IF HasKey(table[r], feature_list[c])
             THEN ValueOf(table[r], feature_list[c]) ELSE Num(0)])])])

\* Rows of a table handed to the export on its own
MaxExportRows == 1

\* Features a row handed to the export may hold (the first, one in the middle
\* and the last of feature_list), and the values it may hold for them
ExportKeys == {"tBodyAcc-mean()-x", "fBodyGyro-bandsEnergy()-25,48-z", "angle(z,gravityMean)"}
ExportValues == {Num(-2), NaN}

\* The values a row may hold for a key: an angle is always a number here
ExportValuesOf(key) == IF key = "angle(z,gravityMean)" THEN {Num(-2)} ELSE ExportValues

\* The row objects over ExportKeys: every choice of keys, in every insertion order
ExportRows ==
  {row \in UNION {[1..n -> ExportKeys \X ExportValues] : n \in 0..Cardinality(ExportKeys)} :
     /\ \A i, j \in DOMAIN row : i # j => row[i][1] # row[j][1]
     /\ \A i \in DOMAIN row : row[i][2] \in ExportValuesOf(row[i][1])}

VARIABLES
  accData,                 \* useState: the accelerometer buffer
  gyroData,                \* useState: the gyroscope buffer
  featureTable,            \* useState: the rows of the last successful run
  isProcessing,            \* useState
  dataCollectionProgress,  \* useState
  accSource, gyroSource,   \* environment: what each sensor observes
  accCount, gyroCount,     \* environment: readings delivered so far
  alerts,                  \* the titles passed to Alert.alert, in order
  presses,                 \* presses of the Generate button so far
  pc,                      \* "idle", or "saving" while saveFeaturesToFile is awaited
  accWindows, gyroWindows, \* the windows sliced by the last run
  newFeatures,             \* the rows pushed by the last run, before normalization
  accWindow, gyroWindow,   \* processSignalWindow on its own: its arguments
  windowFeatures,          \*   the followed features of the row it returns
  windowKeys,              \*   the keys of the row it returns
  featureRows,             \* normalizeFeatures on its own: its argument
  normalizedFeatures,      \*   the rows it returns
  readings,                \* the windowing loop of processSensorData: its argument
  windows,                 \*   the windows it pushes
  windowed,                \*   whether the loop has run
  callArgs,                \* one function called on its own: its arguments
  callResult,              \*   what it returned
  callState                \*   "idle" before the call, then how the call ended

appVars == <<accData, gyroData, featureTable, isProcessing, dataCollectionProgress,
             accSource, gyroSource, accCount, gyroCount, alerts, presses, pc,
             accWindows, gyroWindows, newFeatures>>
extractVars == <<accWindow, gyroWindow, windowFeatures, windowKeys>>
normVars == <<featureRows, normalizedFeatures>>
windowingVars == <<readings, windows, windowed>>

callVars == <<callArgs, callResult, callState>>

vars == <<appVars, extractVars, normVars, windowingVars, callVars>>

MaxEvents == requiredSamples + MaxExtra

\* The app after its first render
AppInit ==
  /\ accData = <<>>
  /\ gyroData = <<>>
  /\ featureTable = <<>>
  /\ isProcessing = FALSE
  /\ dataCollectionProgress = Num(0)
  /\ accCount = 0
  /\ gyroCount = 0
  /\ alerts = <<>>
  /\ presses = 0
  /\ pc = "idle"
  /\ accWindows = <<>>
  /\ gyroWindows = <<>>
  /\ newFeatures = <<>>

\* No call of processSignalWindow on its own
ExtractIdle ==
  /\ accWindow = <<>>
  /\ gyroWindow = <<>>
  /\ windowFeatures = <<>>
  /\ windowKeys = {}

\* No call of normalizeFeatures on its own
NormIdle ==
  /\ featureRows = <<>>
  /\ normalizedFeatures = <<>>

\* No call of the windowing loop on its own
WindowingIdle ==
  /\ readings = <<>>
  /\ windows = <<>>
  /\ windowed = FALSE

\* No call of a single function on its own
CallIdle ==
  /\ callArgs = <<>>
  /\ callResult = <<>>
  /\ callState = "idle"

Init ==
  /\ AppInit
  /\ \E scenario \in Scenarios : accSource = scenario[1] /\ gyroSource = scenario[2]
  /\ ExtractIdle
  /\ NormIdle
  /\ WindowingIdle
  /\ CallIdle

\* Accelerometer.addListener((accelerometerData) => setAccData(...))
AccelerometerEvent ==
  /\ accCount < MaxEvents
  /\ accData' = Buffered(accData, SourceReading(accSource, accCount))
  /\ dataCollectionProgress' = Progress(Len(accData'))
  /\ accCount' = accCount + 1
  /\ UNCHANGED <<gyroData, featureTable, isProcessing, accSource, gyroSource, gyroCount,
                 alerts, presses, pc, accWindows, gyroWindows, newFeatures>>
  /\ UNCHANGED <<extractVars, normVars, windowingVars, callVars>>

\* Gyroscope.addListener((gyroscopeData) => setGyroData(...))
GyroscopeEvent ==
  /\ gyroCount < MaxEvents
  /\ gyroData' = Buffered(gyroData, SourceReading(gyroSource, gyroCount))
  /\ gyroCount' = gyroCount + 1
  /\ UNCHANGED <<accData, featureTable, isProcessing, dataCollectionProgress, accSource,
                 gyroSource, accCount, alerts, presses, pc, accWindows, gyroWindows,
                 newFeatures>>
  /\ UNCHANGED <<extractVars, normVars, windowingVars, callVars>>

\* processMultipleSignals, from the press of the button to the await of
\* saveFeaturesToFile (or to its return, when it does not get that far), for
\* the first maxPresses presses of the button
processMultipleSignalsUpTo(maxPresses) ==
  /\ ~ButtonDisabled(isProcessing, dataCollectionProgress)
  /\ presses < maxPresses
  /\ presses' = presses + 1
  /\ IF InsufficientData(accData, gyroData)
     THEN /\ alerts' = Append(alerts, "Insufficient Data")
          /\ UNCHANGED <<featureTable, isProcessing, pc, accWindows, gyroWindows, newFeatures>>
     ELSE /\ accWindows' = SliceLoop(accData, 0, <<>>)
          /\ gyroWindows' = SliceLoop(gyroData, 0, <<>>)
          /\ IF \E i \in 1..targetFeatureSets :
                  processSensorDataThrows(accWindows'[i]) \/ processSensorDataThrows(gyroWindows'[i])
             THEN \* the catch block, then finally
                  /\ alerts' = Append(alerts, "Error")
                  /\ UNCHANGED <<featureTable, isProcessing, pc, newFeatures>>
             ELSE /\ newFeatures' = ExtractLoop(accWindows', gyroWindows', 0, <<>>)
                  /\ featureTable' = normalizeFeatures(newFeatures')
                  /\ isProcessing' = TRUE
                  /\ pc' = "saving"
                  /\ UNCHANGED alerts
  /\ UNCHANGED <<accData, gyroData, dataCollectionProgress, accSource, gyroSource,
                 accCount, gyroCount>>
  /\ UNCHANGED <<extractVars, normVars, windowingVars, callVars>>

\* onPress={processMultipleSignals}
processMultipleSignals == processMultipleSignalsUpTo(MaxPresses)

\* saveFeaturesToFile resolves: the Success alert, then finally
SaveResolves ==
  /\ pc = "saving"
  /\ alerts' = Append(alerts, "Success")
  /\ isProcessing' = FALSE
  /\ pc' = "idle"
  /\ UNCHANGED <<accData, gyroData, featureTable, dataCollectionProgress, accSource,
                 gyroSource, accCount, gyroCount, presses, accWindows, gyroWindows,
                 newFeatures>>
  /\ UNCHANGED <<extractVars, normVars, windowingVars, callVars>>

\* A variant of SaveRejects whose Success alert stands after the try block: it
\* is shown after the Error alert of the catch block
SaveRejectsThenSuccess ==
  /\ pc = "saving"
  /\ alerts' = Append(Append(alerts, "Error"), "Success")
  /\ isProcessing' = FALSE
  /\ pc' = "idle"
  /\ UNCHANGED <<accData, gyroData, featureTable, dataCollectionProgress, accSource,
                 gyroSource, accCount, gyroCount, presses, accWindows, gyroWindows,
                 newFeatures>>
  /\ UNCHANGED <<extractVars, normVars, windowingVars, callVars>>

\* writeAsStringAsync or shareAsync rejects: saveFeaturesToFile rethrows, the
\* catch block shows the Error alert, then finally
SaveRejects ==
  /\ pc = "saving"
  /\ alerts' = Append(alerts, "Error")
  /\ isProcessing' = FALSE
  /\ pc' = "idle"
  /\ UNCHANGED <<accData, gyroData, featureTable, dataCollectionProgress, accSource,
                 gyroSource, accCount, gyroCount, presses, accWindows, gyroWindows,
                 newFeatures>>
  /\ UNCHANGED <<extractVars, normVars, windowingVars, callVars>>

Next ==
  \/ AccelerometerEvent
  \/ GyroscopeEvent
  \/ processMultipleSignals
  \/ SaveResolves
  \/ SaveRejects

Spec == Init /\ [][Next]_vars

(***************************************************************************)
(* processSignalWindow on its own: one window per sensor, then the call    *)
(***************************************************************************)
InitExtract ==
  /\ AppInit /\ accSource = "walk" /\ gyroSource = "walk"
  /\ CallIdle
  /\ NormIdle
  /\ WindowingIdle
  /\ accWindow \in {SourceWindow(source, offset) : source \in AccSources, offset \in 0..MaxOffset}
  /\ gyroWindow \in {SourceWindow(source, offset) : source \in GyroSources, offset \in 0..MaxOffset}
  /\ windowFeatures = <<>>
  /\ windowKeys = {}

\* const windowFeatures = processSignalWindow(accWindow, gyroWindow)
ExtractWindow ==
  /\ windowKeys = {}
  /\ windowFeatures' = processSignalWindow(accWindow, gyroWindow)
  /\ windowKeys' = processSignalWindowKeys
  /\ UNCHANGED <<accWindow, gyroWindow, appVars, normVars, windowingVars, callVars>>

NextExtract == ExtractWindow

SpecExtract == InitExtract /\ [][NextExtract]_vars

(***************************************************************************)
(* normalizeFeatures on its own: one batch, then the call                  *)
(***************************************************************************)
InitNorm ==
  /\ AppInit /\ accSource = "walk" /\ gyroSource = "walk"
  /\ CallIdle
  /\ ExtractIdle
  /\ WindowingIdle
  /\ \E n \in 1..MaxRows : featureRows \in Batches(n)
  /\ normalizedFeatures = <<>>

\* const normalizedFeatures = normalizeFeatures(newFeatures)
Normalize ==
  /\ normalizedFeatures = <<>>
  /\ normalizedFeatures' = normalizeFeatures(featureRows)
  /\ UNCHANGED <<featureRows, appVars, extractVars, windowingVars, callVars>>

NextNorm == Normalize

SpecNorm == InitNorm /\ [][NextNorm]_vars

(***************************************************************************)
(* The windowing loop of processSensorData on its own                      *)
(***************************************************************************)
\* Readings are told apart by their arrival number
InitWindowing ==
  /\ AppInit /\ accSource = "walk" /\ gyroSource = "walk"
  /\ CallIdle
  /\ ExtractIdle
  /\ NormIdle
  /\ \E n \in 0..MaxReadings : readings = [j \in 1..n |-> j - 1]
  /\ windows = <<>>
  /\ windowed = FALSE

\* const windows = []; for (...) windows.push(readings.slice(i, i + this.windowSize))
Windowing ==
  /\ ~windowed
  /\ windows' = processSensorDataWindows(readings)
  /\ windowed' = TRUE
  /\ UNCHANGED <<readings, appVars, extractVars, normVars, callVars>>

NextWindowing == Windowing

SpecWindowing == InitWindowing /\ [][NextWindowing]_vars

(***************************************************************************)
(* The export on its own: saveFeaturesToFile of the app and                *)
(* saveFeaturesToCSV of the earlier app, on one table                      *)
(***************************************************************************)
InitExport ==
  /\ AppInit /\ accSource = "walk" /\ gyroSource = "walk"
  /\ ExtractIdle
  /\ NormIdle
  /\ WindowingIdle
  /\ \E n \in 0..MaxExportRows : callArgs \in [1..n -> ExportRows]
  /\ callResult = <<>>
  /\ callState = "idle"

\* await saveFeaturesToFile(normalizedFeatures), up to fileContent
SaveFeaturesToFile ==
  /\ callState = "idle"
  /\ callResult' = saveFeaturesToFile(callArgs)
  /\ callState' = "file"
  /\ UNCHANGED <<callArgs, appVars, extractVars, normVars, windowingVars>>

\* onPress={saveFeaturesToCSV}, up to csvContent
SaveFeaturesToCSV ==
  /\ callState = "idle"
  /\ IF NoFeatures(callArgs)
     THEN callState' = "no features" /\ UNCHANGED callResult
     ELSE callState' = "csv" /\ callResult' = saveFeaturesToCSV(callArgs)
  /\ UNCHANGED <<callArgs, appVars, extractVars, normVars, windowingVars>>

NextExport == SaveFeaturesToFile \/ SaveFeaturesToCSV

SpecExport == InitExport /\ [][NextExport]_vars

(***************************************************************************)
(* butterworthFilter on its own, statement by statement, called several    *)
(* times on one SignalProcessor: callArgs holds data and cutoffFreq,        *)
(* callResult the array filtered, callState the position in the function    *)
(* and its locals x1, x2, y1, y2 (which keep their last values between      *)
(* calls here, so that a call that failed to set them would be seen)        *)
(***************************************************************************)
\* Calls of butterworthFilter on one SignalProcessor
MaxFilterCalls == 2
\* Longest series handed to butterworthFilter on its own
MaxFilterLen == 3

\* The series and cutoffs handed to butterworthFilter on its own
FilterCalls ==
  {[data |-> data, cutoffFreq |-> cutoffFreq] :
     data \in UNION {[1..n -> {Num(1), Num(-2)}] : n \in 0..MaxFilterLen},
     cutoffFreq \in {Num(20), gravityCutoff}}

\* A variant of FilterLocals that keeps what the previous call left in
\* x1, x2, y1, y2
FilterLocalsKept(left) == left

\* let x1 = 0, x2 = 0, y1 = 0, y2 = 0; whatever an earlier call left
FilterLocals(left) == [x1 |-> Fin(0), x2 |-> Fin(0), y1 |-> Fin(0), y2 |-> Fin(0)]

InitFilter ==
  /\ AppInit /\ accSource = "walk" /\ gyroSource = "walk"
  /\ ExtractIdle
  /\ NormIdle
  /\ WindowingIdle
  /\ callArgs \in FilterCalls
  /\ callResult = <<>>
  /\ callState = [pc |-> "idle", calls |-> 0,
                  locals |-> [x1 |-> Fin(0), x2 |-> Fin(0), y1 |-> Fin(0), y2 |-> Fin(0)]]

\* The call: the coefficients, const filtered = ..., let x1 = 0, ...
FilterCall ==
  /\ callState.pc = "idle"
  /\ callResult' = <<>>
  /\ callState' = [pc |-> "loop", calls |-> callState.calls + 1,
                   locals |-> FilterLocals(callState.locals)]
  /\ UNCHANGED <<callArgs, appVars, extractVars, normVars, windowingVars>>

\* One turn of the loop: filtered[i] = b0 * x0 + b1 * x1 + b2 * x2 - a1 * y1 - a2 * y2
FilterStep ==
  /\ callState.pc = "loop"
  /\ Len(callResult) < Len(callArgs.data)
  /\ LET c == ButterworthCoeff(callArgs.cutoffFreq)
         l == callState.locals
         x0 == callArgs.data[Len(callResult) + 1]
         y0 == Sub(Sub(Add(Add(Mul(c.b0, x0), Mul(c.b1, l.x1)), Mul(c.b2, l.x2)),
                       Mul(c.a1, l.y1)), Mul(c.a2, l.y2))
     IN  /\ callResult' = Append(callResult, y0)
         /\ callState' = [callState EXCEPT !.locals = [x1 |-> x0, x2 |-> l.x1,
                                                       y1 |-> y0, y2 |-> l.y1]]
  /\ UNCHANGED <<callArgs, appVars, extractVars, normVars, windowingVars>>

\* return filtered
FilterReturn ==
  /\ callState.pc = "loop"
  /\ Len(callResult) = Len(callArgs.data)
  /\ callState' = [callState EXCEPT !.pc = "returned"]
  /\ UNCHANGED <<callArgs, callResult, appVars, extractVars, normVars, windowingVars>>

\* The SignalProcessor is handed the next series
FilterNextSeries ==
  /\ callState.pc = "returned"
  /\ callState.calls < MaxFilterCalls
  /\ callArgs' \in FilterCalls
  /\ callState' = [callState EXCEPT !.pc = "idle"]
  /\ UNCHANGED <<callResult, appVars, extractVars, normVars, windowingVars>>

NextFilter == FilterCall \/ FilterStep \/ FilterReturn \/ FilterNextSeries

SpecFilter == InitFilter /\ [][NextFilter]_vars

(***************************************************************************)
(* processSensorData on its own: the readings of one sensor, then the call *)
(***************************************************************************)
\* What a sensor may observe
SignalSources == AccSources \cup GyroSources

\* The first n readings of a window of a source
SignalReadings ==
  {SubSeq(SourceWindow(source, offset), 1, n) :
     source \in SignalSources, offset \in 0..MaxOffset, n \in 0..windowSize}

InitSignals ==
  /\ AppInit /\ accSource = "walk" /\ gyroSource = "walk"
  /\ ExtractIdle
  /\ NormIdle
  /\ WindowingIdle
  /\ callArgs \in SignalReadings
  /\ callResult = <<>>
  /\ callState = "idle"

\* signalProcessor.processSensorData(readings)
ProcessSensorData ==
  /\ callState = "idle"
  /\ IF processSensorDataThrows(callArgs)
     THEN callState' = "threw" /\ UNCHANGED callResult
     ELSE callState' = "returned" /\ callResult' = processSensorData(callArgs, Num(20))
  /\ UNCHANGED <<callArgs, appVars, extractVars, normVars, windowingVars>>

NextSignals == ProcessSensorData

SpecSignals == InitSignals /\ [][NextSignals]_vars

(***************************************************************************)
(* calculateMagnitude on its own: three axis series of one length, then    *)
(* the call                                                                *)
(***************************************************************************)
MaxMagnitudeLen == 1

\* Axis values: whole numbers, and the NaN calculateJerk returns for two
\* equal readings with one timestamp
MagnitudeValues == {Num(0), Num(-3), Num(4), NaN}

MagnitudeSeries(n) == {Elements(s) : s \in [1..n -> MagnitudeValues]}

InitMagnitude ==
  /\ AppInit /\ accSource = "walk" /\ gyroSource = "walk"
  /\ ExtractIdle
  /\ NormIdle
  /\ WindowingIdle
  /\ \E n \in 0..MaxMagnitudeLen :
       callArgs \in [x : MagnitudeSeries(n), y : MagnitudeSeries(n), z : MagnitudeSeries(n)]
  /\ callResult = <<>>
  /\ callState = "idle"

\* signalProcessor.calculateMagnitude(x, y, z)
CalculateMagnitude ==
  /\ callState = "idle"
  /\ callResult' = calculateMagnitude(callArgs.x, callArgs.y, callArgs.z)
  /\ callState' = "returned"
  /\ UNCHANGED <<callArgs, appVars, extractVars, normVars, windowingVars>>

NextMagnitude == CalculateMagnitude

SpecMagnitude == InitMagnitude /\ [][NextMagnitude]_vars

(***************************************************************************)
(* calculateCorrelation on its own: two non-constant series of one length, *)
(* then the call                                                           *)
(***************************************************************************)
MaxCorrelationLen == 3

\* Sample values: small whole numbers
CorrelationValues == {Num(0), Num(1), Num(2), Num(3), Num(4)}

\* The series of n sample values that are not constant
CorrelationSeries(n) ==
  {Elements(s) : s \in {t \in [1..n -> CorrelationValues] :
                          \E i \in 1..n : t[i] # t[1]}}

InitCorrelation ==
  /\ AppInit /\ accSource = "walk" /\ gyroSource = "walk"
  /\ ExtractIdle
  /\ NormIdle
  /\ WindowingIdle
  /\ \E n \in 2..MaxCorrelationLen :
       callArgs \in [signal1 : CorrelationSeries(n), signal2 : CorrelationSeries(n)]
  /\ callResult = <<>>
  /\ callState = "idle"

\* featureExtractor.calculateCorrelation(signal1, signal2)
CalculateCorrelation ==
  /\ callState = "idle"
  /\ callResult' = calculateCorrelation(callArgs.signal1, callArgs.signal2)
  /\ callState' = "returned"
  /\ UNCHANGED <<callArgs, appVars, extractVars, normVars, windowingVars>>

NextCorrelation == CalculateCorrelation

SpecCorrelation == InitCorrelation /\ [][NextCorrelation]_vars

(***************************************************************************)
(* calculateARCoefficients on its own: a periodic series, then the call    *)
(***************************************************************************)
MaxPeriod == 4
ARSamples == 8

\* One period of a series that is not constant
ARPatterns ==
  UNION {{Elements(s) : s \in {t \in [1..p -> {Num(-1), Num(0), Num(1)}] :
                                 \E i \in 1..p : t[i] # t[1]}} : p \in 2..MaxPeriod}

\* The first ARSamples samples of the series that repeats the pattern
PeriodicSeries(pattern) ==
  Elements([i \in 1..ARSamples |-> pattern[((i - 1) % Len(pattern)) + 1]])

InitAR ==
  /\ AppInit /\ accSource = "walk" /\ gyroSource = "walk"
  /\ ExtractIdle
  /\ NormIdle
  /\ WindowingIdle
  /\ callArgs \in {PeriodicSeries(pattern) : pattern \in ARPatterns}
  /\ callResult = <<>>
  /\ callState = "idle"

\* this.calculateARCoefficients(data)
CalculateARCoefficients ==
  /\ callState = "idle"
  /\ callResult' = calculateARCoefficients(callArgs, arOrder)
  /\ callState' = "returned"
  /\ UNCHANGED <<callArgs, appVars, extractVars, normVars, windowingVars>>

NextAR == CalculateARCoefficients

SpecAR == InitAR /\ [][NextAR]_vars

(***************************************************************************)
(* extractAngleFeatures on its own: the signals of one window per sensor,  *)
(* as processSignalWindow combines them, then the call                     *)
(***************************************************************************)
\* const combinedProcessedSignals = { tBodyAcc: ..., ... } of processSignalWindow:
\* the time-domain signals of the three axes
combinedProcessedSignals(accProcessedSignals, gyroProcessedSignals) ==
  [tBodyAcc |-> accProcessedSignals.body,
   tGravityAcc |-> accProcessedSignals.gravity,
   tBodyAccJerk |-> accProcessedSignals.bodyJerk,
   tBodyGyro |-> gyroProcessedSignals.body,
   tBodyGyroJerk |-> gyroProcessedSignals.bodyJerk]

InitAngles ==
  /\ AppInit /\ accSource = "walk" /\ gyroSource = "walk"
  /\ ExtractIdle
  /\ NormIdle
  /\ WindowingIdle
  /\ \E acc \in AccSources, gyro \in SignalSources, accOffset, gyroOffset \in 0..MaxOffset :
       callArgs = combinedProcessedSignals(
                    processSensorData(SourceWindow(acc, accOffset), Num(20)),
                    processSensorData(SourceWindow(gyro, gyroOffset), Num(20)))
  /\ callResult = <<>>
  /\ callState = "idle"

\* const angleFeatures = featureExtractor.extractAngleFeatures(combinedProcessedSignals)
ExtractAngleFeatures ==
  /\ callState = "idle"
  /\ callResult' = extractAngleFeatures(callArgs)
  /\ callState' = "returned"
  /\ UNCHANGED <<callArgs, appVars, extractVars, normVars, windowingVars>>

NextAngles == ExtractAngleFeatures

SpecAngles == InitAngles /\ [][NextAngles]_vars

(***************************************************************************)
(* medianFilter on its own: one series, then the call                      *)
(***************************************************************************)
MaxMedianLen == 4

\* Sample values: a baseline, a small step and a spike
MedianValues == {Num(0), Num(1), Num(9)}

InitMedian ==
  /\ AppInit /\ accSource = "walk" /\ gyroSource = "walk"
  /\ ExtractIdle
  /\ NormIdle
  /\ WindowingIdle
  /\ \E n \in 0..MaxMedianLen : callArgs \in {Elements(s) : s \in [1..n -> MedianValues]}
  /\ callResult = <<>>
  /\ callState = "idle"

\* this.medianFilter(data)
MedianFilter ==
  /\ callState = "idle"
  /\ callResult' = medianFilter(callArgs, 3)
  /\ callState' = "returned"
  /\ UNCHANGED <<callArgs, appVars, extractVars, normVars, windowingVars>>

SpecMedian == InitMedian /\ [][MedianFilter]_vars

(***************************************************************************)
(* processAxis on its own: the samples of one axis of a sensor with their  *)
(* timestamps and a cutoff, then the call                                  *)
(***************************************************************************)
\* The cutoffs butterworthFilter has coefficients for
AxisCutoffs == {Num(20), gravityCutoff}

InitAxis ==
  /\ AppInit /\ accSource = "walk" /\ gyroSource = "walk"
  /\ ExtractIdle
  /\ NormIdle
  /\ WindowingIdle
  /\ \E r \in SignalReadings, axis \in Range(Axes), cutoffFreq \in AxisCutoffs :
       callArgs = [data |-> Elements([i \in 1..Len(r) |-> r[i][axis]]),
                   timestamps |-> Elements([i \in 1..Len(r) |-> r[i].timestamp]),
                   cutoffFreq |-> cutoffFreq]
  /\ callResult = <<>>
  /\ callState = "idle"

\* this.processAxis(data, timestamps, cutoffFreq)
ProcessAxis ==
  /\ callState = "idle"
  /\ callResult' = processAxis(callArgs.data, callArgs.timestamps, callArgs.cutoffFreq)
  /\ callState' = "returned"
  /\ UNCHANGED <<callArgs, appVars, extractVars, normVars, windowingVars>>

SpecAxis == InitAxis /\ [][ProcessAxis]_vars

(***************************************************************************)
(* The frequency member of processSensorData on its own: the readings of   *)
(* one sensor, then the call                                               *)
(***************************************************************************)
InitSpectrum ==
  /\ AppInit /\ accSource = "walk" /\ gyroSource = "walk"
  /\ ExtractIdle
  /\ NormIdle
  /\ WindowingIdle
  /\ callArgs \in SignalReadings
  /\ callResult = <<>>
  /\ callState = "idle"

\* signalProcessor.processSensorData(readings).frequency
ProcessSensorDataFrequency ==
  /\ callState = "idle"
  /\ IF processSensorDataThrows(callArgs)
     THEN callState' = "threw" /\ UNCHANGED callResult
     ELSE callState' = "returned" /\ callResult' = processSensorDataFrequency(callArgs, Num(20))
  /\ UNCHANGED <<callArgs, appVars, extractVars, normVars, windowingVars>>

SpecSpectrum == InitSpectrum /\ [][ProcessSensorDataFrequency]_vars

(***************************************************************************)
(* extractAngleFeatures on signals given directly: every series holds      *)
(* AngleSamples whole numbers                                              *)
(***************************************************************************)
AngleSamples == 2

\* The three axis series of a signal
AngleGroups ==
  LET series == {Elements(s) : s \in [1..AngleSamples -> {Num(0), Num(4)}]}
  IN  [x : series, y : series, z : series]

\* A signal whose samples are one vector throughout
SteadyGroup(x, y, z) ==
  [axis \in Range(Axes) |->
     Elements([i \in 1..AngleSamples |->
                 IF axis = "x" THEN Num(x) ELSE IF axis = "y" THEN Num(y) ELSE Num(z)])] @@ <<>>

InitAngleOperands ==
  /\ AppInit /\ accSource = "walk" /\ gyroSource = "walk"
  /\ ExtractIdle
  /\ NormIdle
  /\ WindowingIdle
  /\ \E gravity \in AngleGroups, body \in {SteadyGroup(1, 2, 2), SteadyGroup(-3, 0, 1)} :
       callArgs = [tBodyAcc |-> body,
                   tGravityAcc |-> gravity,
                   tBodyAccJerk |-> SteadyGroup(0, 1, -1),
                   tBodyGyro |-> SteadyGroup(2, 0, 1),
                   tBodyGyroJerk |-> SteadyGroup(1, 1, 0)]
  /\ callResult = <<>>
  /\ callState = "idle"

SpecAngleOperands == InitAngleOperands /\ [][ExtractAngleFeatures]_vars

(***************************************************************************)
(* The band energies of one axis of a full window on their own: the        *)
(* interleaved transform of the window, then the magnitude spectrum and    *)
(* calculateBandsEnergy                                                    *)
(***************************************************************************)
\* windowSize of the app, which is the size of the transform of a window
fullWindowSize == 128

\* The transform with a single line of amplitude 2 at one bin
LineSpectra ==
  {Elements([j \in 1..(2 * fullWindowSize) |-> IF j = 2 * bin + 1 THEN Num(2) ELSE Num(0)]) :
     bin \in 0..(fullWindowSize - 1)}

InitBands ==
  /\ AppInit /\ accSource = "walk" /\ gyroSource = "walk"
  /\ ExtractIdle
  /\ NormIdle
  /\ WindowingIdle
  /\ callArgs \in LineSpectra
  /\ callResult = <<>>
  /\ callState = "idle"

\* const bandFeatures = this.calculateBandsEnergy(magnitudes, 64)
CalculateBandsEnergy ==
  /\ callState = "idle"
  /\ callResult' = calculateBandsEnergy(magnitudeSpectrum(callArgs), numBands)
  /\ callState' = "returned"
  /\ UNCHANGED <<callArgs, appVars, extractVars, normVars, windowingVars>>

SpecBands == InitBands /\ [][CalculateBandsEnergy]_vars

(***************************************************************************)
(* The entropy block of calculateTimeFeatures on its own: one series, then *)
(* the histogram and the entropy                                           *)
(***************************************************************************)
MaxEntropyLen == 3

\* Sample values spread over the range of the histogram
EntropyValues == {Num(0), Num(1), Num(5), Num(10)}

InitEntropy ==
  /\ AppInit /\ accSource = "walk" /\ gyroSource = "walk"
  /\ ExtractIdle
  /\ NormIdle
  /\ WindowingIdle
  /\ \E n \in 1..MaxEntropyLen : callArgs \in {Elements(s) : s \in [1..n -> EntropyValues]}
  /\ callResult = <<>>
  /\ callState = "idle"

\* const bins = ...; data.forEach(...); features["entropy()"] = ...
Entropy ==
  /\ callState = "idle"
  /\ callResult' = entropyOf(callArgs)
  /\ callState' = "returned"
  /\ UNCHANGED <<callArgs, appVars, extractVars, normVars, windowingVars>>

SpecEntropy == InitEntropy /\ [][Entropy]_vars

(***************************************************************************)
(* Runs of processMultipleSignals one after another, with the fairness of  *)
(* the awaited promise                                                     *)
(***************************************************************************)

MaxRuns == 2

\* The buffer of a sensor once its first requiredSamples readings have arrived
FilledBuffer(source) ==
  Elements([j \in 1..requiredSamples |-> SourceReading(source, j - 1)])

\* The app once both buffers are full and the button is enabled
InitRuns ==
  /\ \E scenario \in Scenarios : accSource = scenario[1] /\ gyroSource = scenario[2]
  /\ accData = FilledBuffer(accSource)
  /\ gyroData = FilledBuffer(gyroSource)
  /\ accCount = requiredSamples
  /\ gyroCount = requiredSamples
  /\ dataCollectionProgress = Progress(requiredSamples)
  /\ featureTable = <<>>
  /\ isProcessing = FALSE
  /\ alerts = <<>>
  /\ presses = 0
  /\ pc = "idle"
  /\ accWindows = <<>>
  /\ gyroWindows = <<>>
  /\ newFeatures = <<>>
  /\ ExtractIdle
  /\ NormIdle
  /\ WindowingIdle
  /\ CallIdle

\* onPress={processMultipleSignals}, pressed again after a run
GenerateFeatureSets == processMultipleSignalsUpTo(MaxRuns)

\* The runs and the accelerometer listener, whose progress the button reads;
\* the gyroscope stays silent
NextRuns ==
  \/ AccelerometerEvent
  \/ GenerateFeatureSets
  \/ SaveResolves
  \/ SaveRejects

\* await saveFeaturesToFile(...): the promise of writeAsStringAsync and
\* shareAsync settles, so the run goes on to its catch or finally block
SpecRuns == InitRuns /\ [][NextRuns]_vars /\ WF_vars(SaveResolves \/ SaveRejects)

(***************************************************************************)
(* normalizeFeatures on row objects: the heap of objects, as a sequence    *)
(* indexed by reference, the array of references handed in, then the call  *)
(***************************************************************************)
\* A variant of normalizeFeaturesObjects that writes the normalized values
\* into the row it is handed (const normalizedRow = row)
normalizeFeaturesInPlace(heap0, featureRows0) ==
  Let2(heap0, featureRows0, LAMBDA heap, refs :
    Let(normalizeFeatures(Elements([r \in 1..Len(refs) |-> heap[refs[r]]])),
        LAMBDA normalized :
          [heap |-> Elements([ref \in 1..Len(heap) |->
                       IF \E r \in 1..Len(refs) : refs[r] = ref
                       THEN normalized[CHOOSE r \in 1..Len(refs) : refs[r] = ref]
                       ELSE heap[ref]]),
           rows |-> refs]))

\* normalizeFeatures(featureRows), with the objects it allocates:
\* normalizedRows.map builds a new array, const normalizedRow = { ...row } a
\* new object for each row, and normalizedRow[key] = ... writes that object
normalizeFeaturesObjects(heap0, featureRows0) ==
  Let2(heap0, featureRows0, LAMBDA heap, refs :
    Let(normalizeFeatures(Elements([r \in 1..Len(refs) |-> heap[refs[r]]])),
        LAMBDA normalized :
          [heap |-> heap \o normalized,
           rows |-> Elements([r \in 1..Len(refs) |-> Len(heap) + r])]))

\* The row objects of a batch as processSignalWindow returns them, each a
\* separate object with the same keys, and the array that lists them
InitRows ==
  /\ AppInit /\ accSource = "walk" /\ gyroSource = "walk"
  /\ ExtractIdle
  /\ NormIdle
  /\ WindowingIdle
  /\ \E n \in 1..MaxRows : \E batch \in Batches(n) :
       callArgs = [heap |-> Elements(batch),
                   featureRows |-> Elements([r \in 1..n |-> r])]
  /\ callResult = <<>>
  /\ callState = "idle"

\* const normalizedFeatures = normalizeFeatures(newFeatures)
NormalizeRows ==
  /\ callState = "idle"
  /\ callResult' = normalizeFeaturesObjects(callArgs.heap, callArgs.featureRows)
  /\ callState' = "returned"
  /\ UNCHANGED <<callArgs, appVars, extractVars, normVars, windowingVars>>

SpecRows == InitRows /\ [][NormalizeRows]_vars

(***************************************************************************)
(* Properties                                                              *)
(***************************************************************************)

\* C1: a run of processMultipleSignals on buffers of at least
\* windowSize + slideSize * (targetFeatureSets - 1) samples slices exactly
\* targetFeatureSets windows per sensor; window i of either sensor holds the
\* buffer samples at indices [i * slideSize, i * slideSize + windowSize), so it
\* has windowSize samples and shares its last windowSize - slideSize samples
\* with the start of window i + 1.
RunSlicesWindows ==
  [][(/\ presses' = presses + 1
      /\ Len(accData) >= windowSize + slideSize * (targetFeatureSets - 1)
      /\ Len(gyroData) >= windowSize + slideSize * (targetFeatureSets - 1))
     => /\ Len(accWindows') = targetFeatureSets
        /\ Len(gyroWindows') = targetFeatureSets
        /\ \A i \in 0..(targetFeatureSets - 1) :
             /\ Len(accWindows'[i + 1]) = windowSize
             /\ Len(gyroWindows'[i + 1]) = windowSize
             /\ \A j \in 1..windowSize :
                  /\ accWindows'[i + 1][j] = accData[i * slideSize + j]
                  /\ gyroWindows'[i + 1][j] = gyroData[i * slideSize + j]
        /\ \A i \in 1..(targetFeatureSets - 1) : \A j \in 1..(windowSize - slideSize) :
             /\ accWindows'[i][slideSize + j] = accWindows'[i + 1][j]
             /\ gyroWindows'[i][slideSize + j] = gyroWindows'[i + 1][j]]_vars

\* A run has sliced its windows and awaits the save
WindowsSliced ==
  /\ pc = "saving"
  /\ Len(accWindows) = targetFeatureSets
  /\ Len(gyroWindows) = targetFeatureSets
  /\ accWindows[1] # accWindows[2]

\* C2: the windowing loop of processSensorData, handed 256 readings, pushes
\* exactly 3 windows, starting at readings 0, 64 and 128; and handed n
\* readings, it pushes the window of every offset i * 64 with i * 64 + 128 <= n.
WindowingCoversReadings ==
  windowed =>
    /\ Len(readings) = 2 * spWindowSize =>
         [w \in DOMAIN windows |-> windows[w][1]] = <<0, spWindowSize \div 2, spWindowSize>>
    /\ \A i \in 0..Len(readings) :
         i * (spWindowSize \div 2) + spWindowSize <= Len(readings) =>
           \E w \in DOMAIN windows :
             windows[w] = [j \in 1..spWindowSize |-> i * (spWindowSize \div 2) + j - 1]

\* C3: a press of the button while the accelerometer buffer or the gyroscope
\* buffer holds fewer than requiredSamples samples raises the Insufficient Data
\* alert and nothing else: no window is sliced, no row is extracted, and
\* featureTable and isProcessing stay as they were.
ShortBufferRejected ==
  [][(/\ presses' = presses + 1
      /\ \/ Len(accData) < windowSize + slideSize * (targetFeatureSets - 1)
         \/ Len(gyroData) < windowSize + slideSize * (targetFeatureSets - 1))
     => /\ alerts' = Append(alerts, "Insufficient Data")
        /\ UNCHANGED <<featureTable, isProcessing, pc, accWindows, gyroWindows, newFeatures>>]_vars

\* The button was pressed at full accelerometer progress with the gyroscope
\* buffer still short, and the run was rejected
RejectedAtFullProgress ==
  /\ alerts = <<"Insufficient Data">>
  /\ dataCollectionProgress = Num(100)
  /\ Len(accData) >= windowSize + slideSize * (targetFeatureSets - 1)
  /\ Len(gyroData) < windowSize + slideSize * (targetFeatureSets - 1)
  /\ gyroData # <<>>

\* C4: the keys of the row processSignalWindow returns are exactly the names
\* of feature_list, and feature_list holds 561 names, no two of them equal.
RowKeysAreFeatureList ==
  windowKeys # {} =>
    /\ windowKeys = Range(feature_list)
    /\ DOMAIN windowFeatures \subseteq windowKeys
    /\ Len(feature_list) = 561
    /\ Cardinality(Range(feature_list)) = 561

\* processSignalWindow has returned a row
RowReturned ==
  /\ windowKeys # {}
  /\ DOMAIN windowFeatures # {}
  /\ "fBodyGyro-bandsEnergy()-25,48-z" \in windowKeys

\* C5: every value of a row returned by processSignalWindow is a finite
\* number, also for a window with a constant axis and for a window in which
\* two consecutive readings carry the same timestamp.
RowValuesFinite ==
  \A key \in DOMAIN windowFeatures : IsFinite(windowFeatures[key])

\* C6: in the table of a run, every value of a key whose column is not
\* constant over the extracted rows lies in [-1, 1]; a row holding the column
\* minimum has -1 and a row holding the column maximum has 1.
NormalizedWithinBounds ==
  \A key \in DOMAIN (newFeatures \o <<<<>>>>)[1] :
    LET column == [r \in DOMAIN newFeatures |-> newFeatures[r][key]]
        AtMost(a, b) == ~IsNaN(a) /\ ~IsNaN(b) /\ ~Lt(b, a)
    IN  (\E r1, r2 \in DOMAIN column : column[r1] # column[r2]) =>
          \A r \in DOMAIN column :
            /\ AtMost(Num(-1), featureTable[r][key])
            /\ AtMost(featureTable[r][key], Num(1))
            /\ (\A r2 \in DOMAIN column : AtMost(column[r], column[r2])) =>
                 featureTable[r][key] = Num(-1)
            /\ (\A r2 \in DOMAIN column : AtMost(column[r2], column[r])) =>
                 featureTable[r][key] = Num(1)

\* C7: in the table of a run, every value of a key whose extracted value is
\* the same in all rows is 0.
ConstantColumnIsZero ==
  \A key \in DOMAIN (newFeatures \o <<<<>>>>)[1] :
    (\A r \in DOMAIN newFeatures : newFeatures[r][key] = newFeatures[1][key]) =>
      \A r \in DOMAIN newFeatures : featureTable[r][key] = Num(0)

\* C8: two batches that agree on the column of a key in every row have the
\* same normalized column of that key, whatever their other columns hold.
NoCrossKeyInteraction ==
  normalizedFeatures # <<>> =>
    \A key \in NormKeys : \A others \in [DOMAIN featureRows -> NormValues] :
      Let(normalizeFeatures([r \in DOMAIN featureRows |->
                               [k \in NormKeys |->
                                  IF k = key THEN featureRows[r][k] ELSE others[r]]]),
          LAMBDA normalizedOther :
            \A r \in DOMAIN featureRows : normalizedOther[r][key] = normalizedFeatures[r][key])

\* A batch of several rows was normalized whose columns differ, one of them
\* rescaled and one holding NaN
BatchNormalized ==
  /\ Len(normalizedFeatures) > 1
  /\ \E k1, k2 \in NormKeys :
       /\ normalizedFeatures[1][k1] = Num(-1)
       /\ normalizedFeatures[2][k1] = Num(1)
       /\ IsNaN(featureRows[1][k2])

\* C9: when exactly one extracted row of a run holds NaN for a feature, the
\* table holds, in every other row of that feature and in every other
\* feature, what it would hold had that one value been 0; and the table still
\* has a row for every window.
FailureStaysLocal ==
  /\ featureTable # <<>> => Len(featureTable) = targetFeatureSets
  /\ \A row \in DOMAIN newFeatures : \A feature \in DOMAIN newFeatures[row] :
       (/\ IsNaN(newFeatures[row][feature])
        /\ \A r \in DOMAIN newFeatures \ {row} : ~IsNaN(newFeatures[r][feature]))
       => Let(normalizeFeatures([newFeatures EXCEPT ![row][feature] = Num(0)]),
              LAMBDA repaired :
                \A r \in DOMAIN newFeatures : \A f \in DOMAIN newFeatures[r] :
                  (r # row \/ f # feature) => featureTable[r][f] = repaired[r][f])

\* C10: a successful run leaves a table of targetFeatureSets rows, row i being
\* the normalized feature row of the windows that start at sample i * slideSize
\* of the buffers the run read.
TableInWindowOrder ==
  [][(pc = "idle" /\ pc' = "saving")
     => /\ Len(featureTable') = targetFeatureSets
        /\ featureTable' =
             normalizeFeatures(Elements(
               [i \in 1..targetFeatureSets |->
                  processSignalWindow(
                    SubSeq(accData, (i - 1) * slideSize + 1, (i - 1) * slideSize + windowSize),
                    SubSeq(gyroData, (i - 1) * slideSize + 1, (i - 1) * slideSize + windowSize))]))
     ]_vars

\* A successful run has set a table whose rows differ from one another
TableSet ==
  /\ pc = "saving"
  /\ Len(featureTable) = targetFeatureSets
  /\ \A i, j \in 1..targetFeatureSets : i # j => featureTable[i] # featureTable[j]

\* C11: the normalizer is a barrier.  Whenever a run publishes a table
\* (setFeatureTable) or starts the export (await saveFeaturesToFile), all
\* targetFeatureSets windows of the run have been sliced and extracted and the
\* table is normalizeFeatures of their rows: no table is set and no export is
\* started from fewer rows.
NormalizerIsBarrier ==
  [][(featureTable' # featureTable \/ (pc = "idle" /\ pc' = "saving"))
     => /\ Len(newFeatures') = targetFeatureSets
        /\ Len(accWindows') = targetFeatureSets
        /\ Len(gyroWindows') = targetFeatureSets
        /\ featureTable' = normalizeFeatures(newFeatures')
        /\ pc' = "saving"]_vars

\* A run has normalized the rows of all its windows and awaits the export
NormalizedAfterExtraction ==
  /\ pc = "saving"
  /\ Len(newFeatures) = targetFeatureSets
  /\ featureTable # newFeatures
  /\ Len(featureTable) = Len(newFeatures)

\* C12: every exported row has exactly one column per name of feature_list,
\* 561 of them, column c holding the row's value of feature_list[c] whatever
\* the order in which the row's keys were inserted, and 0 when the row lacks
\* that feature; this holds for saveFeaturesToFile and for saveFeaturesToCSV,
\* whose header is feature_list.
ExportFollowsFeatureList ==
  LET Canonical(rows) ==
        /\ Len(rows) = Len(callArgs)
        /\ \A r \in DOMAIN rows :
             /\ Len(rows[r]) = 561
             /\ Len(rows[r]) = Len(feature_list)
             /\ \A c \in DOMAIN rows[r] :
                  /\ (\A e \in Range(callArgs[r]) : e[1] # feature_list[c])
                       => rows[r][c] = Num(0)
                  /\ \A e \in Range(callArgs[r]) :
                       (e[1] = feature_list[c] /\ IsFinite(e[2])) => rows[r][c] = e[2]
  IN  /\ callState = "file" => Canonical(callResult)
      /\ callState = "csv" =>
           Canonical(callResult.dataRows) /\ callResult.headerRow = feature_list

\* A row whose keys were inserted against the order of feature_list, lacking
\* one of the features, was written to the file
RowExported ==
  /\ callState = "file"
  /\ Len(callArgs) > 0
  /\ Len(callArgs[1]) = 2
  /\ callArgs[1][1][1] = "angle(z,gravityMean)"
  /\ callArgs[1][2][1] = "tBodyAcc-mean()-x"
  /\ IsFinite(callArgs[1][1][2])
  /\ callResult[1][561] = callArgs[1][1][2]

\* C13: extraction keeps no state between calls.  Every call of
\* butterworthFilter on a SignalProcessor, whatever series the processor
\* filtered before, returns what the filter returns for that series from the
\* state x1 = x2 = y1 = y2 = 0: its first output is b0 * data[0], and a series
\* filtered again gives the same array.
FilterStartsFromZero ==
  callState.pc = "returned" =>
    /\ callResult = butterworthFilter(callArgs.data, callArgs.cutoffFreq)
    /\ callArgs.data # <<>> =>
         callResult[1] = Mul(ButterworthCoeff(callArgs.cutoffFreq).b0, callArgs.data[1])

\* A second call on the same SignalProcessor has returned an array of several
\* samples
FilteredAfterAnotherSeries ==
  /\ callState.pc = "returned"
  /\ callState.calls = 2
  /\ Len(callResult) > 1
  /\ callResult[1] # Fin(0)

\* C14: calculateJerk fails when two consecutive timestamps of the readings
\* are equal: processSensorData does not return for such readings, so no
\* jerk sample is ever the quotient of a division by a time step of 0.
JerkRejectsEqualTimestamps ==
  (/\ callState # "idle"
   /\ \E i \in 1..(Len(callArgs) - 1) : callArgs[i + 1].timestamp = callArgs[i].timestamp)
  => callState = "threw"

\* C17: for n readings, processSensorData returns body and gravity series of
\* n samples for x, y, z and for the magnitude, and jerk series of n - 1
\* samples, with jerk[i - 1] = (s[i] - s[i - 1]) / ((t[i] - t[i - 1]) / 1000)
\* for the body series s of the axis and the timestamps t.
SeriesLengthsAndJerk ==
  callState = "returned" =>
    /\ \A part \in {"x", "y", "z", "magnitude"} :
         /\ Len(callResult.body[part]) = Len(callArgs)
         /\ Len(callResult.gravity[part]) = Len(callArgs)
         /\ Len(callResult.bodyJerk[part]) = Len(callArgs) - 1
    /\ \A axis \in {"x", "y", "z"} : \A i \in 1..(Len(callArgs) - 1) :
         callResult.bodyJerk[axis][i] =
           Div(Sub(callResult.body[axis][i + 1], callResult.body[axis][i]),
               Div(Num(callArgs[i + 1].timestamp - callArgs[i].timestamp), Num(1000)))

\* processSensorData has returned the signals of a full window of a walk
WalkProcessed ==
  /\ callState = "returned"
  /\ Len(callArgs) = windowSize
  /\ \E i \in 1..(windowSize - 1) :
       /\ IsFinite(callResult.bodyJerk["x"][i])
       /\ callResult.bodyJerk["x"][i] # Num(0)
       /\ callResult.bodyJerk["magnitude"][i] # Num(0)

\* C15: an angle feature one of whose two operands is a zero vector (the
\* mean rotation of a device that does not turn: every sample of the signal
\* the operand is taken from is 0 on every axis) is 0 in the features
\* extractAngleFeatures returns.
ZeroVectorAngleIsZero ==
  callState = "returned" =>
    \A feature \in DOMAIN angleOperands : \A operand \in {1, 2} :
      LET name == angleOperands[feature][operand]
          signal == IF name = "tBodyAccMean" THEN callArgs.tBodyAcc
                    ELSE IF name = "tBodyAccJerkMean" THEN callArgs.tBodyAccJerk
                    ELSE IF name = "tBodyGyroMean" THEN callArgs.tBodyGyro
                    ELSE IF name = "tBodyGyroJerkMean" THEN callArgs.tBodyGyroJerk
                    ELSE callArgs.tGravityAcc
      IN  (/\ name \notin {"x", "y", "z"}
           /\ \A axis \in {"x", "y", "z"} : \A i \in DOMAIN signal[axis] :
                signal[axis][i] = Num(0))
          => callResult[feature] = Num(0)

\* C16: a statistic whose denominator is 0 is emitted as 0.  The Burg
\* denominator of a series is 0 when every sample of the series is 0, so the
\* first AR coefficient of such a series is 0 in the row processSignalWindow
\* returns.
DegenerateStatisticIsZero ==
  windowKeys # {} =>
    LET acc == processSensorData(accWindow, Num(20))
        gyro == processSensorData(gyroWindow, Num(20))
        signals == [tBodyAcc |-> acc.body, tBodyAccJerk |-> acc.bodyJerk,
                    tBodyGyro |-> gyro.body, tBodyGyroJerk |-> gyro.bodyJerk]
    IN  \A signalType \in DOMAIN signals : \A axis \in {"x", "y", "z"} :
          (\A i \in DOMAIN signals[signalType][axis] : signals[signalType][axis][i] = Num(0))
          => windowFeatures[AxisKey(signalType, "arCoeff()1", axis)] = Num(0)

\* C18: calculateMagnitude returns a series of the length of its arguments
\* in which every element is >= 0, is the square root of
\* x[i]^2 + y[i]^2 + z[i]^2 (to the last digit kept), and is 0 only when the
\* three axis values at that index are 0.
MagnitudeIsNorm ==
  callState = "returned" =>
    /\ Len(callResult) = Len(callArgs.x)
    /\ \A i \in DOMAIN callResult :
         LET m == callResult[i]
             sum == Add(Add(Mul(callArgs.x[i], callArgs.x[i]),
                            Mul(callArgs.y[i], callArgs.y[i])),
                        Mul(callArgs.z[i], callArgs.z[i]))
         IN  /\ ~IsNaN(m) /\ ~Lt(m, Num(0))
             /\ IsFinite(m) => /\ IsFinite(sum)
                               /\ SquareAtMost(m.v, sum.v)
                               /\ ~SquareAtMost(m.v + 1, sum.v)
             /\ m = Num(0) => /\ callArgs.x[i] = Num(0)
                              /\ callArgs.y[i] = Num(0)
                              /\ callArgs.z[i] = Num(0)

\* C19: for two non-constant series of one length calculateCorrelation
\* returns a value in [-1, 1], the same value with the arguments exchanged,
\* 1 for a series with itself and -1 for [1, 2, 3] with [3, 2, 1].
CorrelationWithinBounds ==
  callState = "returned" =>
    /\ ~IsNaN(callResult)
    /\ ~Lt(Num(1), callResult)
    /\ ~Lt(callResult, Num(-1))
    /\ callResult = calculateCorrelation(callArgs.signal2, callArgs.signal1)
    /\ callArgs.signal1 = callArgs.signal2 => callResult = Num(1)
    /\ (/\ callArgs.signal1 = <<Num(1), Num(2), Num(3)>>
        /\ callArgs.signal2 = <<Num(3), Num(2), Num(1)>>) => callResult = Num(-1)

\* C20: for a periodic series that is not constant calculateARCoefficients
\* returns 4 coefficients, each of them a number of magnitude below 1.
ReflectionBelowOne ==
  callState = "returned" =>
    /\ Len(callResult) = 4
    /\ \A m \in DOMAIN callResult :
         /\ IsFinite(callResult[m])
         /\ Lt(Num(-1), callResult[m])
         /\ Lt(callResult[m], Num(1))

\* C21: medianFilter with window size 3 returns a series of the length of its
\* input; output[i] is the median of the window around i, which at the two
\* ends shrinks symmetrically around i (to the sample itself); every output
\* value is an input value, and an isolated spike inside the series (a sample
\* between two equal neighbours whose value occurs nowhere else) is not in the
\* output.
MedianOfSymmetricWindow ==
  callState = "returned" =>
    /\ Len(callResult) = Len(callArgs)
    /\ \A i \in DOMAIN callResult :
         LET half == Min2(1, Min2(i - 1, Len(callArgs) - i))
             window == SortNum(SubSeq(callArgs, i - half, i + half))
         IN  /\ callResult[i] = window[half + 1]
             /\ callResult[i] \in Range(callArgs)
    /\ \A i \in 2..(Len(callArgs) - 1) :
         (/\ callArgs[i - 1] = callArgs[i + 1]
          /\ \A j \in DOMAIN callArgs : j # i => callArgs[j] # callArgs[i])
         => callArgs[i] \notin Range(callResult)

JerkSpectrumIsOfJerk ==
  callState = "returned" =>
    \A axis \in Range(Axes) :
      callResult.bodyJerk[axis] = fft(processSensorData(callArgs, Num(20)).bodyJerk[axis])

\* C24: each of the four signal-versus-gravity angle features is the angle
\* between the mean vector of its signal and the mean gravity vector of the
\* window, the mean of each gravity axis being its sum divided by its own
\* length.
GravityMeanIsSecondOperand ==
  callState = "returned" =>
    LET MeanVector(group) ==
          <<MeanOver(group["x"], Len(group["x"])), MeanOver(group["y"], Len(group["y"])),
            MeanOver(group["z"], Len(group["z"]))>>
        gravityMean == MeanVector(callArgs["tGravityAcc"])
    IN  /\ callResult["angle(tBodyAccMean,gravity)"] =
             calculateAngle(MeanVector(callArgs["tBodyAcc"]), gravityMean)
        /\ callResult["angle(tBodyAccJerkMean,gravityMean)"] =
             calculateAngle(MeanVector(callArgs["tBodyAccJerk"]), gravityMean)
        /\ callResult["angle(tBodyGyroMean,gravityMean)"] =
             calculateAngle(MeanVector(callArgs["tBodyGyro"]), gravityMean)
        /\ callResult["angle(tBodyGyroJerkMean,gravityMean)"] =
             calculateAngle(MeanVector(callArgs["tBodyGyroJerk"]), gravityMean)

\* C25: for a full window every band-energy feature bandsEnergy()-a,b is the
\* mean squared magnitude over the bins a..b (magnitude indices a-1 .. b-1),
\* a range that is not empty and lies inside the magnitude array.
BandEnergyOverNamedBins ==
  callState = "returned" =>
    LET magnitudes == magnitudeSpectrum(callArgs)
    IN  \A b \in 1..Len(bands) :
          LET first == bands[b].start + 1
              last == bands[b].end
          IN  /\ first <= last
              /\ last <= Len(magnitudes)
              /\ callResult[BandKey(bands[b])] =
                   Div(SumSquaresFrom(SubSeq(magnitudes, first, last), 1, Fin(0)),
                       Num(last - first + 1))

\* C26: the entropy computation writes no bin other than the bins 0..9; for a
\* series that is not constant the bin counts add up to n, the maximum is
\* counted in bin 9 and the entropy is >= 0; for a constant series the
\* entropy is 0.
EntropyBinsPartition ==
  callState = "returned" =>
    LET bins == callResult.bins
        constant == \A i \in DOMAIN callArgs : callArgs[i] = callArgs[1]
    IN  /\ DOMAIN bins = {Num(i) : i \in 0..9}
        /\ ~constant =>
             /\ Sum([b \in 1..10 |-> bins[Num(b - 1)]]) = Num(Len(callArgs))
             /\ Lt(Num(0), bins[Num(9)])
             /\ ~IsNaN(callResult.entropy) /\ ~Lt(callResult.entropy, Num(0))
        /\ constant => callResult.entropy = Num(0)

\* C27: after any interleaving of sensor events each buffer holds at most
\* requiredSamples readings, namely the latest min(received, requiredSamples)
\* readings of its own sensor in arrival order; an event of one sensor leaves
\* the other buffer alone; dataCollectionProgress is
\* min(100, 100 * accData.length / requiredSamples) (to the rounding of the
\* division) and never decreases.
BuffersHoldLatest ==
  /\ [](/\ Len(accData) = Min2(accCount, requiredSamples)
        /\ Len(gyroData) = Min2(gyroCount, requiredSamples)
        /\ \A j \in DOMAIN accData :
             accData[j] = SourceReading(accSource, accCount - Len(accData) + j - 1)
        /\ \A j \in DOMAIN gyroData :
             gyroData[j] = SourceReading(gyroSource, gyroCount - Len(gyroData) + j - 1)
        /\ IsFinite(dataCollectionProgress)
        /\ dataCollectionProgress.v <= 100 * Scale
        /\ Len(accData) = requiredSamples => dataCollectionProgress = Num(100)
        /\ Abs(dataCollectionProgress.v * requiredSamples - 100 * Scale * Len(accData))
             <= 100 * requiredSamples)
  /\ [][/\ accCount' # accCount => gyroData' = gyroData
        /\ gyroCount' # gyroCount => accData' = accData
        /\ ~Lt(dataCollectionProgress', dataCollectionProgress)]_vars

\* Both sensors have delivered more readings than a buffer holds, so each
\* buffer has evicted its oldest reading
OldestEvicted ==
  /\ accCount > requiredSamples
  /\ gyroCount > requiredSamples
  /\ Len(accData) = requiredSamples
  /\ Len(gyroData) = requiredSamples

\* C28: isProcessing becomes true only at the start of a run that passed the
\* data-sufficiency guard and stays true only until that run ends with its
\* Success or Error alert; every such run eventually sets it back to false;
\* while it is true the Generate button is disabled and no second run starts.
ProcessingBracketsRun ==
  /\ [][/\ (~isProcessing /\ isProcessing')
             => (~InsufficientData(accData, gyroData) /\ presses' = presses + 1)
        /\ isProcessing
             => /\ presses' = presses
                /\ (~isProcessing'
                      => /\ Len(alerts') = Len(alerts) + 1
                         /\ alerts'[Len(alerts')] \in {"Success", "Error"})]_vars
  /\ [](isProcessing => (dataCollectionProgress = Num(100) /\ presses > 0))
  /\ (isProcessing ~> ~isProcessing)

\* A second run is under way after a first run has ended in the Error alert
SecondRunAfterFailure ==
  /\ presses = 2
  /\ isProcessing
  /\ alerts = <<"Error">>

\* C29: a run reports Success only when the awaited saveFeaturesToFile has
\* resolved (the file written and shared), after all targetFeatureSets
\* windows were extracted and the normalized batch was set as featureTable;
\* a run that shows the Error alert shows no Success alert (each run shows
\* exactly one alert); and a run that fails before the save is awaited
\* leaves featureTable as it was.
SuccessOnlyAfterAllSteps ==
  /\ [](Len(alerts) + (IF pc = "saving" THEN 1 ELSE 0) = presses)
  /\ [][alerts' # alerts =>
          LET title == alerts'[Len(alerts')]
          IN  /\ alerts' = Append(alerts, title)
              /\ title = "Success"
                   => /\ pc = "saving" /\ pc' = "idle"
                      /\ Len(newFeatures) = targetFeatureSets
                      /\ Len(accWindows) = targetFeatureSets
                      /\ Len(gyroWindows) = targetFeatureSets
                      /\ featureTable' = normalizeFeatures(newFeatures)
              /\ (title = "Error" /\ pc = "idle") => featureTable' = featureTable]_vars

\* A run has succeeded and the run after it, on later readings, has failed
\* while saving
SavingFailedAfterSuccess ==
  /\ alerts = <<"Success", "Error">>
  /\ accCount > requiredSamples
  /\ Len(featureTable) = targetFeatureSets

\* C30: normalizeFeatures returns as many rows as it was handed, in the order
\* of its input (within a column without NaN, a row with a smaller input has
\* a smaller output), each with exactly the keys of the first input row, and
\* every output row is a new object: the input row objects are as they were.
RowsCopiedInOrder ==
  callState = "returned" =>
    LET heap == callArgs.heap
        refs == callArgs.featureRows
        newHeap == callResult.heap
        rows == callResult.rows
    IN  /\ Len(rows) = Len(refs)
        /\ \A r \in DOMAIN rows :
             /\ rows[r] \in DOMAIN newHeap
             /\ rows[r] \notin DOMAIN heap
             /\ DOMAIN newHeap[rows[r]] = DOMAIN heap[refs[1]]
             /\ \A s \in DOMAIN rows : r # s => rows[r] # rows[s]
        /\ \A ref \in DOMAIN heap : newHeap[ref] = heap[ref]
        /\ \A key \in DOMAIN heap[refs[1]] :
             (\A r \in DOMAIN refs : ~IsNaN(heap[refs[r]][key]))
               => \A r, s \in DOMAIN refs :
                    Lt(heap[refs[r]][key], heap[refs[s]][key])
                      => Lt(newHeap[rows[r]][key], newHeap[rows[s]][key])

\* A batch of two rows was normalized into rows that differ from their inputs
RowsRescaled ==
  /\ callState = "returned"
  /\ Len(callResult.rows) = 2
  /\ \A r \in 1..2 : callResult.heap[callResult.rows[r]] # callArgs.heap[callArgs.featureRows[r]]
  /\ \E key \in NormKeys :
       Lt(callArgs.heap[1][key], callArgs.heap[2][key])
====
